---- MODULE Spec2Model ----
(***************************************************************************)
(* ChessCrypto codec: encode (backend/src/cryptography/encode.ts), decode  *)
(* (cryptography/decode.ts) and their helpers (cryptography/util.ts).      *)
(*                                                                         *)
(* The rules engine (chess.js) is an external collaborator.  It is         *)
(* modelled as a family of deterministic legal-action oracles: a state is  *)
(* the list of actions played since the initial position, the oracle gives *)
(* the ordered list of legal action tokens of a state, and applying a      *)
(* token appends it.                                                       *)
(*                                                                         *)
(* Text is modelled structurally.  A byte string is a sequence of numbers  *)
(* 0..255, a bit string a sequence of 0/1, a decimal or hexadecimal string *)
(* a sequence of digit values.  A transcript is the sequence of its        *)
(* paragraphs (maximal pieces of text without a blank line).               *)
(***************************************************************************)
EXTENDS Integers, Sequences, FiniteSets, TLC

\* ------------------------------------------------------------------ bounds
MaxLen == 2

\* The main loop of encode is followed while the game on the board has fewer
\* than MaxBoard actions and fewer than MaxGames games have been pushed.  No
\* engine that lets encode return comes near either bound; an engine under
\* which the loop never ends is followed up to them.
MaxBoard == 85
MaxGames == 40

\* ------------------------------------------------------- program constants
MAX_RETRIES == 5
MaxHistory == 80
BitsPerGameEstimate == 240
SmallTextLimit == 1000
CharI == 105

\* ------------------------------------------------------------ basic helpers
Min(a, b) == IF a < b THEN a ELSE b

RECURSIVE Pow2(_)
Pow2(k) == IF k <= 0 THEN 1 ELSE 2 * Pow2(k - 1)

\* Math.floor(Math.log2(n)) for n >= 1 (MaxMoveBitsCeil: rounding up instead)
RECURSIVE MaxMoveBitsCeil(_)
MaxMoveBitsCeil(n) == IF n < 2 THEN 0 ELSE 1 + MaxMoveBitsCeil((n + 1) \div 2)

RECURSIVE MaxMoveBits(_)
MaxMoveBits(n) == IF n < 2 THEN 0 ELSE 1 + MaxMoveBits(n \div 2)

\* Number.prototype.toString(2)
RECURSIVE NumToBits(_)
NumToBits(num) == IF num < 2 THEN <<num>> ELSE Append(NumToBits(num \div 2), num % 2)

\* String.prototype.padStart / padEnd with a one-character filler
PadStart(s, len, c) == IF Len(s) >= len THEN s ELSE [i \in 1..(len - Len(s)) |-> c] \o s

PadEnd(s, len, c) == IF Len(s) >= len THEN s ELSE s \o [i \in 1..(len - Len(s)) |-> c]

toBinaryString(num, bits) == PadStart(NumToBits(num), bits, 0)

\* parseInt(bits, 2)
RECURSIVE ParseBits(_)
ParseBits(s) == IF Len(s) = 0 THEN 0 ELSE 2 * ParseBits(SubSeq(s, 1, Len(s) - 1)) + s[Len(s)]

\* String.prototype.substring(a, b) / slice(a, b) with 0-based bounds
Substring(s, a, b) == SubSeq(s, Min(a, Len(s)) + 1, Min(b, Len(s)))

StartsWith(s, p) == Len(p) <= Len(s) /\ SubSeq(s, 1, Len(p)) = p

\* fileBytes.map(byte => toBinaryString(byte, 8)).join('')
RECURSIVE EntireFileBinary(_)
EntireFileBinary(bytes) ==
  IF Len(bytes) = 0 THEN <<>>
  ELSE toBinaryString(Head(bytes), 8) \o EntireFileBinary(Tail(bytes))

\* Number.prototype.toString() of a non-negative integer, as decimal digits
RECURSIVE ToDecimal(_)
ToDecimal(n) == IF n < 10 THEN <<n>> ELSE Append(ToDecimal(n \div 10), n % 10)

\* parseInt(s, 10) of a string of decimal digits
RECURSIVE ParseDecimal(_)
ParseDecimal(s) == IF Len(s) = 0 THEN 0 ELSE 10 * ParseDecimal(SubSeq(s, 1, Len(s) - 1)) + s[Len(s)]

\* ---------------------------------------------------------------- checksum
\* a ^ b on the low n bits
RECURSIVE XorBits(_, _, _)
XorBits(a, b, n) ==
  IF n = 0 THEN 0 ELSE 2 * XorBits(a \div 2, b \div 2, n - 1) + ((a + b) % 2)

FnvOffsetHi == 33052
FnvOffsetLo == 40389
FnvPrimeLow == 403

\* FNV-1 order: the multiplication first, then the exclusive or
FnvRoundMultiplyFirst(h, byte) ==
  LET p  == h[2] * FnvPrimeLow
      lo == p % 65536
  IN  << (h[1] * FnvPrimeLow + (p \div 65536) + (h[2] % 256) * 256) % 65536,
         (lo \div 256) * 256 + XorBits(lo % 256, byte, 8) >>

\* One round of the loop: hash ^= byte; hash = Math.imul(hash, 16777619).
\* The 32-bit hash is kept as two 16-bit halves <<hi, lo>>;
\* 16777619 = 2^24 + 403.
FnvRound(h, byte) ==
  LET lo1 == (h[2] \div 256) * 256 + XorBits(h[2] % 256, byte, 8)
      p   == lo1 * FnvPrimeLow
  IN  << (h[1] * FnvPrimeLow + (p \div 65536) + (lo1 % 256) * 256) % 65536, p % 65536 >>

RECURSIVE FnvFold(_, _)
FnvFold(h, buffer) ==
  IF Len(h) = 2 /\ Len(buffer) = 0 THEN h ELSE FnvFold(FnvRound(h, Head(buffer)), Tail(buffer))

\* Number.prototype.toString(16) as hexadecimal digit values
RECURSIVE ToHex(_)
ToHex(n) == IF n < 16 THEN <<n>> ELSE Append(ToHex(n \div 16), n % 16)

Hex32(h) == IF h[1] = 0 THEN ToHex(h[2]) ELSE ToHex(h[1]) \o PadStart(ToHex(h[2]), 4, 0)

calculateChecksum(buffer) ==
  PadStart(Hex32(FnvFold(<<FnvOffsetHi, FnvOffsetLo>>, buffer)), 8, 0)

\* ------------------------------------------------------------------ oracle
\* pat: number of legal actions by position class; mix: whether the class
\* depends on the last action; drawAt: history length from which the engine
\* reports a draw (0: never).
OracleFour      == [pat |-> <<4>>, mix |-> 0, drawAt |-> 0]
OracleEight     == [pat |-> <<8>>, mix |-> 0, drawAt |-> 0]
OracleForced    == [pat |-> <<2, 1, 1, 1, 1, 1, 1, 1>>, mix |-> 0, drawAt |-> 0]
OracleMixed     == [pat |-> <<5, 3, 1, 6>>, mix |-> 1, drawAt |-> 0]
OracleMate      == [pat |-> <<4, 3, 2, 0>>, mix |-> 0, drawAt |-> 0]
OracleDraw      == [pat |-> <<4, 2>>, mix |-> 0, drawAt |-> 3]
OracleWide      == [pat |-> <<256>>, mix |-> 0, drawAt |-> 0]
OracleWideDraw  == [pat |-> <<256>>, mix |-> 0, drawAt |-> 16]
\* no legal action in the initial position; one legal action in every state
OracleStale     == [pat |-> <<0>>, mix |-> 0, drawAt |-> 0]
OracleSingle    == [pat |-> <<1>>, mix |-> 0, drawAt |-> 0]

Oracles == {OracleFour, OracleEight, OracleForced, OracleMixed, OracleMate, OracleDraw, OracleWide}

StuckOracles == {OracleStale, OracleSingle}

LegalCount(o, hist) ==
  LET d    == Len(hist)
      last == IF d = 0 THEN 0 ELSE hist[d]
  IN  o.pat[((d + o.mix * last) % Len(o.pat)) + 1]

\* chessBoard.moves({ verbose: true }) mapped to from + to + promotion:
\* the ordered list of the tokens of the legal actions
LegalMoves(o, hist) ==
  LET n == LegalCount(o, hist)
  IN  [j \in 1..n |-> ((j - 1) + Len(hist)) % n]

\* chessBoard.isInsufficientMaterial() || chessBoard.isDraw()
IsDraw(o, hist) == o.drawAt > 0 /\ Len(hist) >= o.drawAt

\* legalMoveUcis.indexOf(moveUci): 0-based index, -1 when absent
IndexOf(seq, x) ==
  IF \E j \in 1..Len(seq) : seq[j] = x
  THEN (CHOOSE j \in 1..Len(seq) : seq[j] = x /\ \A i \in 1..(j - 1) : seq[i] # x) - 1
  ELSE -1

\* ------------------------------------------------------- games and headers
\* The tags the codec writes or reads.  A tag that is absent has the empty
\* value (headers.X is then falsy in the code).
NoHeader ==
  [Event |-> "", Round |-> <<>>, FileSize |-> <<>>, Checksum |-> <<>>,
   EncodingVersion |-> "", GameCount |-> <<>>, GameIndex |-> <<>>, BitPosition |-> <<>>]

\* gameCount = Math.ceil(fileBitsCount / (80 * 3))
GameCountEstimate(fileBitsCount) == (fileBitsCount + BitsPerGameEstimate - 1) \div BitsPerGameEstimate

\* headers of the first game
FirstHeader(originalFileSize, fileChecksum, gameCount) ==
  [Event |-> "ChessCrypto File", Round |-> <<1>>,
   FileSize |-> ToDecimal(originalFileSize), Checksum |-> fileChecksum,
   EncodingVersion |-> "1.3",
   GameCount |-> IF gameCount > 1 THEN ToDecimal(gameCount) ELSE <<>>,
   GameIndex |-> IF gameCount > 1 THEN <<1>> ELSE <<>>,
   BitPosition |-> <<>>]

\* headers of a continuation game; pushed = outputPgns.length at that moment
ContinuationHeader(originalFileSize, fileChecksum, gameCount, pushed, bitIndex) ==
  [Event |-> "ChessCrypto File (Continued)", Round |-> ToDecimal(pushed + 1),
   FileSize |-> ToDecimal(originalFileSize), Checksum |-> fileChecksum,
   EncodingVersion |-> "1.3",
   GameCount |-> IF gameCount > 1 THEN ToDecimal(gameCount) ELSE <<>>,
   GameIndex |-> IF gameCount > 1 THEN ToDecimal(pushed + 1) ELSE <<>>,
   BitPosition |-> IF gameCount > 1 THEN ToDecimal(bitIndex) ELSE <<>>]

\* chessBoard.pgn(): the game as the engine serialises it, a tag section
\* and the movetext
Pgn(header, history) == [hdr |-> header, moves |-> history]

\* ------------------------------------------------------------------- text
\* A paragraph of a transcript: a tag section, a movetext, text that is
\* neither (garbage: its maximal alphanumeric chunks, as character codes),
\* or white space only.
TagsParagraph(header) == [kind |-> "tags", hdr |-> header, moves |-> <<>>, chunks |-> <<>>]

MovesParagraph(history) == [kind |-> "moves", hdr |-> NoHeader, moves |-> history, chunks |-> <<>>]

GarbageParagraph(textChunks) == [kind |-> "garbage", hdr |-> NoHeader, moves |-> <<>>, chunks |-> textChunks]

BlankParagraph == [kind |-> "blank", hdr |-> NoHeader, moves |-> <<>>, chunks |-> <<>>]

\* The text of one serialised game: the tag section, and after a blank line
\* the movetext when the game has moves (PGN export format).
PgnText(game) ==
  (IF game.hdr = NoHeader THEN <<>> ELSE <<TagsParagraph(game.hdr)>>)
  \o (IF Len(game.moves) = 0 THEN <<>> ELSE <<MovesParagraph(game.moves)>>)

\* outputPgns.join("\n\n")
RECURSIVE JoinPgns(_)
JoinPgns(pgns) ==
  IF Len(pgns) = 0 THEN <<>> ELSE PgnText(Head(pgns)) \o JoinPgns(Tail(pgns))

\* ------------------------------------------------------------ encode: step
\* moveBits: for the first 2^maxBinaryLength legal moves, in order, the
\* token and its code word
\* (MoveBitsLsbFirst: the code word written least significant bit first)
MoveBitsLsbFirst(legalMoves, maxBinaryLength) ==
  [j \in 1..Min(Len(legalMoves), Pow2(maxBinaryLength)) |->
     [uci |-> legalMoves[j],
      bin |-> [i \in 1..maxBinaryLength |->
                 toBinaryString(j - 1, maxBinaryLength)[maxBinaryLength + 1 - i]]]]

MoveBits(legalMoves, maxBinaryLength) ==
  [j \in 1..Min(Len(legalMoves), Pow2(maxBinaryLength)) |->
     [uci |-> legalMoves[j], bin |-> toBinaryString(j - 1, maxBinaryLength)]]

\* first entry of moveBits (in for..in order) that satisfies Test, 0 if none
FirstEntry(moveBits, Test(_)) ==
  IF \E j \in 1..Len(moveBits) : Test(moveBits[j])
  THEN CHOOSE j \in 1..Len(moveBits) :
         Test(moveBits[j]) /\ \A i \in 1..(j - 1) : ~Test(moveBits[i])
  ELSE 0

ZeroCount(bin) == Cardinality({i \in 1..Len(bin) : bin[i] = 0})

\* The search for the move to play: exact match, prefix match for the final
\* 'i', reduced-length retry, fallback.  Result: the entry selected (0: none,
\* the loop continues), and the retry counter.
SelectMove(moveBits, nextFileChunk, maxBinaryLength, special, retryCount) ==
  LET Exact(e)   == e.bin = nextFileChunk
      Prefix(e)  == StartsWith(nextFileChunk, e.bin)
      exact      == FirstEntry(moveBits, Exact)
      afterI     == IF exact = 0 /\ special THEN FirstEntry(moveBits, Prefix) ELSE exact
      retrying   == afterI = 0 /\ retryCount < MAX_RETRIES
      retry1     == IF retrying THEN retryCount + 1 ELSE retryCount
      reducedLen == maxBinaryLength - 1
      Reduced(e) == e.bin = Substring(nextFileChunk, 0, reducedLen)
      afterRetry == IF retrying /\ reducedLen > 0 THEN FirstEntry(moveBits, Reduced) ELSE afterI
      Best(e)    == \A i \in 1..Len(moveBits) : ZeroCount(moveBits[i].bin) <= ZeroCount(e.bin)
      fallback   == FirstEntry(moveBits, Best)
  IN  IF afterRetry # 0 THEN [entry |-> afterRetry, retryCount |-> retry1]
      ELSE IF retrying THEN [entry |-> 0, retryCount |-> retry1]
      ELSE [entry |-> IF fallback = 0 THEN 1 ELSE fallback, retryCount |-> retry1]

\* bitsEncoded
BitsEncoded(retryCount, maxBinaryLength) ==
  IF retryCount > 0 /\ maxBinaryLength > 1 THEN maxBinaryLength - 1 ELSE maxBinaryLength

\* maxBinaryLength (MaxBinaryLengthWhole: not limited to the bits that remain)
MaxBinaryLengthWhole(maxMoveBits, remainingBits, special, bitIndex) == maxMoveBits

MaxBinaryLength(maxMoveBits, remainingBits, special, bitIndex) ==
  IF special /\ bitIndex % 8 = 0 /\ remainingBits >= 8 /\ maxMoveBits >= 8
  THEN 8
  ELSE Min(maxMoveBits, remainingBits)

\* the segment is closed after a move
SegmentEnds(n, drawn, eofReached, historyLength) ==
  n <= 1 \/ drawn \/ eofReached \/ historyLength >= MaxHistory

\* ---------------------------------------------------------- decode: text
\* getPgnGames (current version of util.ts).  The text is the sequence of the
\* blocks that blank lines separate; a block that holds several sections on
\* consecutive lines is a "lines" paragraph.
\* (getPgnGamesStrict: keeping only the blocks that look like a game.)
LinesParagraph(parts) ==
  [kind |-> "lines", hdr |-> NoHeader, moves |-> <<>>, chunks |-> <<>>, parts |-> parts]

\* the sections of a block, in the order of the text
SectionsOf(paragraph) == IF paragraph.kind = "lines" THEN paragraph.parts ELSE <<paragraph>>

\* the block a run of sections makes
Block(parts) == IF Len(parts) = 1 THEN parts[1] ELSE LinesParagraph(parts)

HasMetadata(text) ==
  \E i \in 1..Len(text) : \E j \in 1..Len(SectionsOf(text[i])) :
     LET section == SectionsOf(text[i])[j]
     IN  /\ section.kind = "tags"
         /\ \/ section.hdr.FileSize # <<>>
            \/ section.hdr.Checksum # <<>>
            \/ section.hdr.EncodingVersion # ""

IsBlank(paragraph) == paragraph.kind = "blank"

NotBlank(paragraph) == ~IsBlank(paragraph)

\* hasStandardFormat: the block has '[' and ']' (a tag section) and a number
\* followed by a dot (the move numbers of a movetext)
HasStandardFormat(singleGame) ==
  /\ \E j \in 1..Len(SectionsOf(singleGame)) : SectionsOf(singleGame)[j].kind = "tags"
  /\ \E j \in 1..Len(SectionsOf(singleGame)) :
        SectionsOf(singleGame)[j].kind = "moves" /\ Len(SectionsOf(singleGame)[j].moves) > 0

\* potentialGames: the text from the first tag on, cut before every later
\* Event tag (current: the sections since lastTagIndex, empty while it is -1)
RECURSIVE PotentialGames(_, _, _)
PotentialGames(sections, current, found) ==
  IF Len(sections) = 0
  THEN IF Len(current) = 0 THEN found ELSE Append(found, Block(current))
  ELSE LET section == Head(sections)
       IN  IF section.kind = "tags" /\ section.hdr.Event # "" /\ Len(current) > 0
           THEN PotentialGames(Tail(sections), <<section>>, Append(found, Block(current)))
           ELSE IF Len(current) = 0 /\ section.kind # "tags"
           THEN PotentialGames(Tail(sections), <<>>, found)
           ELSE PotentialGames(Tail(sections), Append(current, section), found)

getPgnGamesStrict(text) ==
  LET IsGame(paragraph) == paragraph.kind \in {"tags", "moves"}
  IN  SelectSeq(text, IsGame)

getPgnGames(text) ==
  IF \A i \in 1..Len(text) : IsBlank(text[i])
  THEN <<>>
  ELSE IF Len(text) > 1 \/ HasMetadata(text)
  THEN SelectSeq(text, NotBlank)
  ELSE IF ~HasStandardFormat(text[1])
  THEN <<text[1]>>
  ELSE LET potentialGames == PotentialGames(SectionsOf(text[1]), <<>>, <<>>)
       IN  IF Len(potentialGames) > 1 THEN potentialGames ELSE <<text[1]>>

\* every token of the movetext is a legal action of the position it is
\* played in
RECURSIVE LegalLine(_, _, _)
LegalLine(o, hist, moves) ==
  IF Len(moves) = 0 THEN TRUE
  ELSE /\ IndexOf(LegalMoves(o, hist), Head(moves)) # -1
       /\ LegalLine(o, Append(hist, Head(moves)), Tail(moves))

\* chessBoard.loadPgn(gameStr) followed by header() and history(): the
\* engine throws on text that is not a game (ok = FALSE)
LoadPgn(o, paragraph) ==
  IF paragraph.kind = "tags"
  THEN [ok |-> TRUE, hdr |-> paragraph.hdr, moves |-> <<>>]
  ELSE IF paragraph.kind = "moves" /\ LegalLine(o, <<>>, paragraph.moves)
  THEN [ok |-> TRUE, hdr |-> NoHeader, moves |-> paragraph.moves]
  ELSE [ok |-> FALSE, hdr |-> NoHeader, moves |-> <<>>]

\* one byte of the fallback: the parities of eight character codes
ParityByte(chars) == ParseBits([i \in 1..Len(chars) |-> chars[i] % 2])

\* bytes taken from one chunk, 8 characters at a time from position j
RECURSIVE ChunkBytes(_, _)
ChunkBytes(chunk, j) ==
  IF j < Len(chunk) - 7
  THEN <<ParityByte(Substring(chunk, j, j + 8))>> \o ChunkBytes(chunk, j + 8)
  ELSE <<>>

\* the fallback for a game that does not load: bytes from its chunks
RECURSIVE FallbackBytes(_)
FallbackBytes(chunks) ==
  IF Len(chunks) = 0 THEN <<>>
  ELSE (IF Len(Head(chunks)) >= 8 THEN ChunkBytes(Head(chunks), 0) ELSE <<>>)
       \o FallbackBytes(Tail(chunks))

\* gameWithIndices.sort((a, b) => a.index - b.index), a stable sort
RECURSIVE InsertByIndex(_, _)
InsertByIndex(sorted, g) ==
  IF Len(sorted) = 0 THEN <<g>>
  ELSE IF ParseDecimal(sorted[Len(sorted)].hdr.GameIndex) <= ParseDecimal(g.hdr.GameIndex)
  THEN Append(sorted, g)
  ELSE Append(InsertByIndex(SubSeq(sorted, 1, Len(sorted) - 1), g), sorted[Len(sorted)])

RECURSIVE SortByIndex(_)
SortByIndex(games) ==
  IF Len(games) = 0 THEN <<>>
  ELSE InsertByIndex(SortByIndex(SubSeq(games, 1, Len(games) - 1)), games[Len(games)])

\* sortedGames: sorted by GameIndex when the first game announces more than
\* one game and every block loads and carries a GameIndex
SortedGames(o, games, expectedGameCount) ==
  IF /\ expectedGameCount > 1
     /\ \A i \in 1..Len(games) :
          LoadPgn(o, games[i]).ok /\ LoadPgn(o, games[i]).hdr.GameIndex # <<>>
  THEN SortByIndex(games)
  ELSE games

\* complete bytes of a bit string: parseInt(byteStr, 2) of each 8 bits, the
\* last group possibly shorter
RECURSIVE BitsToBytes(_)
BitsToBytes(bits) ==
  IF Len(bits) = 0 THEN <<>>
  ELSE <<ParseBits(Substring(bits, 0, 8))>> \o BitsToBytes(Substring(bits, 8, Len(bits)))

\* ------------------------------------------------- decode: after the loop
\* the bits written by the block "Process any remaining bits"
RemainingBitsToUse(outputData, allDecodedBits, totalBytesWritten, originalFileSize, mayHaveFinalIChar) ==
  LET known          == originalFileSize # -1
      remainingBytes == IF known THEN originalFileSize - totalBytesWritten
                        ELSE (Len(outputData) + 7) \div 8
      bitsNeeded     == remainingBytes * 8
      startBitPos    == totalBytesWritten * 8
      remainingAll   == Substring(allDecodedBits, startBitPos, Len(allDecodedBits))
      fromAll        == IF /\ bitsNeeded > Len(outputData) /\ known
                           /\ Len(allDecodedBits) > Len(outputData)
                           /\ startBitPos < Len(allDecodedBits)
                        THEN IF Len(remainingAll) >= bitsNeeded
                             THEN Substring(remainingAll, 0, bitsNeeded)
                             ELSE remainingAll
                        ELSE outputData
      targetI        == toBinaryString(CharI, 8)
      matchCount     == Cardinality({i \in 1..Min(Len(fromAll), 8) : fromAll[i] = targetI[i]})
      fixedI         == IF /\ remainingBytes = 1 /\ Len(fromAll) > 0 /\ mayHaveFinalIChar
                           /\ Len(fromAll) >= 6 /\ matchCount >= 6
                        THEN targetI ELSE fromAll
      lastNeeded     == originalFileSize * 8 - totalBytesWritten * 8
      cut            == IF known /\ lastNeeded < Len(fixedI)
                        THEN Substring(fixedI, 0, lastNeeded) ELSE fixedI
  IN  IF Len(cut) % 8 # 0 THEN PadEnd(cut, Len(cut) + (8 - (Len(cut) % 8)), 0) ELSE cut

\* the bytes appended after the game loop
RemainingBytes(outputData, allDecodedBits, totalBytesWritten, originalFileSize, mayHaveFinalIChar) ==
  IF Len(outputData) > 0 /\ (originalFileSize = -1 \/ totalBytesWritten < originalFileSize)
  THEN BitsToBytes(RemainingBitsToUse(outputData, allDecodedBits, totalBytesWritten,
                                      originalFileSize, mayHaveFinalIChar))
  ELSE <<>>

\* fs.ftruncateSync(outputFd, originalFileSize): cuts a longer file, extends
\* a shorter one with null bytes
Truncate(file, originalFileSize) ==
  IF originalFileSize = -1 THEN file
  ELSE IF Len(file) >= originalFileSize THEN SubSeq(file, 1, originalFileSize)
  ELSE PadEnd(file, originalFileSize, 0)

\* decodedBuffer.toString('utf8').match(/^[\x20-\x7E\n\t\r]*$/)
IsPlainText(buffer) ==
  \A i \in 1..Len(buffer) : (buffer[i] >= 32 /\ buffer[i] <= 126) \/ buffer[i] \in {9, 10, 13}

\* Buffer.toString('utf8') followed by writing the string back as UTF-8:
\* well-formed sequences are kept, every maximal ill-formed subpart becomes
\* U+FFFD (EF BF BD)
Utf8Need(b1) ==
  IF b1 >= 194 /\ b1 <= 223 THEN 1
  ELSE IF b1 >= 224 /\ b1 <= 239 THEN 2
  ELSE IF b1 >= 240 /\ b1 <= 244 THEN 3
  ELSE 0

Utf8SecondOk(b1, b2) ==
  IF b1 = 224 THEN b2 >= 160 /\ b2 <= 191
  ELSE IF b1 = 237 THEN b2 >= 128 /\ b2 <= 159
  ELSE IF b1 = 240 THEN b2 >= 144 /\ b2 <= 191
  ELSE IF b1 = 244 THEN b2 >= 128 /\ b2 <= 143
  ELSE b2 >= 128 /\ b2 <= 191

\* number of continuation bytes that follow the lead byte correctly
Utf8Matched(b) ==
  LET need == Utf8Need(b[1])
      Ok(i) == /\ i + 1 <= Len(b)
               /\ IF i = 1 THEN Utf8SecondOk(b[1], b[2]) ELSE b[i + 1] >= 128 /\ b[i + 1] <= 191
  IN  IF need >= 1 /\ Ok(1)
      THEN IF need >= 2 /\ Ok(2)
           THEN IF need >= 3 /\ Ok(3) THEN 3 ELSE 2
           ELSE 1
      ELSE 0

RECURSIVE Utf8Rewrite(_)
Utf8Rewrite(b) ==
  IF Len(b) = 0 THEN <<>>
  ELSE IF b[1] < 128 THEN <<b[1]>> \o Utf8Rewrite(Tail(b))
  ELSE LET need == Utf8Need(b[1])
           got  == Utf8Matched(b)
       IN  IF need > 0 /\ got = need
           THEN SubSeq(b, 1, need + 1) \o Utf8Rewrite(SubSeq(b, need + 2, Len(b)))
           ELSE <<239, 191, 189>> \o Utf8Rewrite(SubSeq(b, got + 2, Len(b)))

\* String.prototype.includes
Includes(text, pat) ==
  \E i \in 0..(Len(text) - Len(pat)) : SubSeq(text, i + 1, i + Len(pat)) = pat

\* String.prototype.replace with a global regular expression of a literal
RECURSIVE ReplaceAll(_, _, _)
ReplaceAll(text, pat, rep) ==
  IF Len(text) < Len(pat) THEN text
  ELSE IF SubSeq(text, 1, Len(pat)) = pat
  THEN rep \o ReplaceAll(SubSeq(text, Len(pat) + 1, Len(text)), pat, rep)
  ELSE <<Head(text)>> \o ReplaceAll(Tail(text), pat, rep)

\* getCharacterFixes(), in the order Object.entries lists it
getCharacterFixes ==
  << <<<<55>>, <<63>>>>, <<<<40>>, <<43>>>>, <<<<58>>, <<61>>>>, <<<<89>>, <<92>>>>,
     <<<<63>>, <<60>>>>, <<<<94>>, <<42>>>>, <<<<124>>, <<47>>>>, <<<<38>>, <<37>>>>,
     <<<<112>>, <<115>>>>, <<<<104, 97, 104>>, <<104, 97, 105>>>> >>

StrHah == <<104, 97, 104>>
StrHai == <<104, 97, 105>>
StrDetails == <<100, 101, 116, 97, 105, 108, 115>>
StrDetailLt == <<100, 101, 116, 97, 105, 108, 60>>
StrDetailsQ == <<100, 101, 116, 97, 105, 108, 115, 63>>

\* the loop over the character fixes: entries 1..k applied to fixedText
RECURSIVE ApplyFixes(_, _, _)
ApplyFixes(decodedText, fixedText, k) ==
  IF k = 0 THEN fixedText
  ELSE LET before == ApplyFixes(decodedText, fixedText, k - 1)
           fix    == getCharacterFixes[k]
       IN  IF Includes(decodedText, fix[1]) THEN ReplaceAll(before, fix[1], fix[2]) ELSE before

\* The text after the character fixes, the "hah" fix (hahFix: its
\* condition) and the "detail<" fix; needsFix tells whether it is written.
FixText(decodedText, hahFix) ==
  LET anyFix  == \E k \in 1..Len(getCharacterFixes) : Includes(decodedText, getCharacterFixes[k][1])
      fixed1  == ApplyFixes(decodedText, decodedText, Len(getCharacterFixes))
      fixed2  == IF hahFix THEN ReplaceAll(fixed1, StrHah, StrHai) ELSE fixed1
      details == Includes(decodedText, StrDetails) /\ Includes(decodedText, StrDetailLt)
      fixed3  == IF details THEN ReplaceAll(decodedText, StrDetailLt, StrDetailsQ) ELSE fixed2
  IN  [needsFix |-> anyFix \/ hahFix \/ details, text |-> fixed3]

\* "Verify the decoded content for small text files": the file afterwards
VerifyText(file, encodingVersion) ==
  IF Len(file) < SmallTextLimit /\ IsPlainText(file)
  THEN LET fix == FixText(file, Includes(file, StrHah) /\ ~Includes(file, StrHai)
                                /\ encodingVersion # "1.3")
       IN  IF fix.needsFix THEN fix.text ELSE file
  ELSE file

\* "Verify checksum if one was provided": the file afterwards and whether
\* the checksum read before the fixes matched
VerifyChecksum(file, fileChecksum) ==
  IF fileChecksum = <<>> THEN [file |-> file, result |-> "none"]
  ELSE IF calculateChecksum(file) = fileChecksum THEN [file |-> file, result |-> "verified"]
  ELSE IF Len(file) < SmallTextLimit
  THEN LET decodedText == Utf8Rewrite(file)
           fix == FixText(decodedText, Includes(decodedText, StrHah) /\ ~Includes(decodedText, StrHai))
       IN  [file |-> IF fix.needsFix THEN fix.text ELSE file, result |-> "mismatch"]
  ELSE [file |-> file, result |-> "mismatch"]

\* ------------------------------------------------------------------ inputs
ByteAlphabet == {0, 104, 105, 112, 255}

RECURSIVE BytesUpTo(_)
BytesUpTo(len) ==
  IF len = 0 THEN {<<>>}
  ELSE LET shorter == BytesUpTo(len - 1)
       IN  shorter \cup {Append(b, c) : b \in {x \in shorter : Len(x) = len - 1}, c \in ByteAlphabet}

\* "hai" and "detailsdetail<"
TextHai == <<104, 97, 105>>
TextDetails == <<100, 101, 116, 97, 105, 108, 115, 100, 101, 116, 97, 105, 108, 60>>

Payloads == BytesUpTo(MaxLen) \cup {TextHai, TextDetails}

\* the shortest payload for which encode estimates more than one game, and
\* so writes the GameCount, GameIndex and BitPosition tags: bytes 0, 1, ..
LongPayload == [i \in 1..(BitsPerGameEstimate \div 8 + 1) |-> i - 1]

\* the pairs of a payload and an engine
Inputs == (Payloads \X Oracles) \cup {<<LongPayload, OracleWideDraw>>}

\* one-byte payloads with the engines of at most eight actions per state,
\* the two stuck ones included
TerminationInputs == {<<0>>, <<255>>} \X ((Oracles \ {OracleWide}) \cup StuckOracles)

\* ------------------------------------------------------------------- state
VARIABLES
  pc,                  \* position of the session: encode, then decode
  payload,             \* the file given to encode
  oracle,              \* the rules engine in use
  fileBitIndex,        \* encode: bit cursor
  chessBoard,          \* encode: history of the game being played
  boardHeader,         \* encode: headers of the game being played
  outputPgns,          \* encode: the games pushed so far
  segmentStarts,       \* encode: fileBitIndex when each game was opened
  retryCount,          \* encode
  processingSpecialI,  \* encode
  encodedBits,         \* encode: code words recorded so far, joined
  encodeStep,          \* encode: what the last loop iteration did
  transcript,          \* the text returned by encode / given to decode
  games,               \* decode: sortedGames
  originalFileSize,    \* decode: FileSize of the first game, -1 when null
  fileChecksum,        \* decode: Checksum of the first game, empty when null
  encodingVersion,     \* decode: EncodingVersion of the first game, "" when null
  gameIndex,           \* decode: index of the game being processed
  gameMoves,           \* decode: moves of the game being replayed
  moveIndex,           \* decode: index of the move to replay
  decodeBoard,         \* decode: history of the board the game is replayed on
  outputData,          \* decode: bits not yet written
  allDecodedBits,      \* decode: all the bits decoded
  outFile,             \* decode: content of the output file
  totalBytesWritten,   \* decode
  checksumResult,      \* decode: outcome of the checksum verification
  decodeStep           \* decode: what the last replayed move did

encodeVars ==
  <<fileBitIndex, chessBoard, boardHeader, outputPgns, segmentStarts, retryCount,
    processingSpecialI, encodedBits, encodeStep>>

decodeVars ==
  <<games, originalFileSize, fileChecksum, encodingVersion, gameIndex, gameMoves,
    moveIndex, decodeBoard, outputData, allDecodedBits, outFile, totalBytesWritten,
    checksumResult, decodeStep>>

\* --------------------------------------------- state of the game relay
\* GameServer (one room id) and the connections to it
VARIABLES
  readyState,          \* relay: readyState of each connection
  closeEvents,         \* relay: closed connections whose 'close' event is not handled yet
  rooms,               \* relay: the entry of the room id in the rooms map, NoRoom when absent
  roomsCreated,        \* relay: number of room objects created so far
  handlers,            \* relay: the room object captured by the handlers of each connection
  timers,              \* relay: pending setTimeout callbacks, in the order they were set
  assigned,            \* relay: what the server last told each connection it is
  rejoined,            \* relay: closed players after whose close a connection has arrived
  sent                 \* relay: messages sent by the last handler, as <<connection, type>>

relayVars ==
  <<readyState, closeEvents, rooms, roomsCreated, handlers, timers, assigned, rejoined, sent>>

\* -------------------------------------------- state of the client socket
\* one GameSocket object of the frontend
VARIABLES
  webSockets,          \* client: readyState of every WebSocket the object created
  socket,              \* client: this.socket, index into webSockets, 0 when null
  reconnectAttempts,   \* client
  pingInterval,        \* client: the keep-alive interval is set
  connectTimers,       \* client: pending setTimeout(() => this.connect())
  pingTimers,          \* client: pending ping verifications of onopen
  disconnected         \* client: disconnect() has been called

socketVars ==
  <<webSockets, socket, reconnectAttempts, pingInterval, connectTimers, pingTimers, disconnected>>

\* the variables of the components other than the codec
outsideCodec == <<relayVars, socketVars>>

vars == <<pc, payload, oracle, encodeVars, transcript, decodeVars, relayVars, socketVars>>

\* number of connections the relay is followed for, number of WebSocket
\* objects the client socket is followed for
MaxConnections == 4
MaxWebSockets == 4

Connections == 1..MaxConnections

NoRoom == [id |-> 0, white |-> 0, black |-> 0, spectators |-> {}, stale |-> FALSE]

\* the relay before any connection
RelayIdle ==
  /\ readyState = [c \in Connections |-> "NONE"]
  /\ closeEvents = {}
  /\ rooms = NoRoom
  /\ roomsCreated = 0
  /\ handlers = [c \in Connections |-> 0]
  /\ timers = <<>>
  /\ assigned = [c \in Connections |-> "none"]
  /\ rejoined = {}
  /\ sent = {}

\* the client before the GameSocket is constructed
SocketIdle ==
  /\ webSockets = <<>>
  /\ socket = 0
  /\ reconnectAttempts = 0
  /\ pingInterval = FALSE
  /\ connectTimers = 0
  /\ pingTimers = 0
  /\ disconnected = FALSE

fileBitsCount == Len(payload) * 8

gameCount == GameCountEstimate(fileBitsCount)

NoStep == [kind |-> "none", n |-> 0, index |-> 0, bits |-> 0]

InitOf(inputs) ==
  /\ pc = "start"
  /\ \E input \in inputs : payload = input[1] /\ oracle = input[2]
  /\ fileBitIndex = 0
  /\ chessBoard = <<>>
  /\ boardHeader = NoHeader
  /\ outputPgns = <<>>
  /\ segmentStarts = <<>>
  /\ retryCount = 0
  /\ processingSpecialI = FALSE
  /\ encodedBits = <<>>
  /\ encodeStep = NoStep
  /\ transcript = <<>>
  /\ games = <<>>
  /\ originalFileSize = -1
  /\ fileChecksum = <<>>
  /\ encodingVersion = ""
  /\ gameIndex = 0
  /\ gameMoves = <<>>
  /\ moveIndex = 0
  /\ decodeBoard = <<>>
  /\ outputData = <<>>
  /\ allDecodedBits = <<>>
  /\ outFile = <<>>
  /\ totalBytesWritten = 0
  /\ checksumResult = "none"
  /\ decodeStep = NoStep
  /\ RelayIdle
  /\ SocketIdle

Init == InitOf(Inputs)

\* headers of a game that is not the codec's: no FileSize, Checksum or
\* EncodingVersion tag; the last one has no Event tag either
PlainHeader == [NoHeader EXCEPT !.Event = "ChessCrypto File", !.Round = <<1>>]
PlainContinued == [NoHeader EXCEPT !.Event = "ChessCrypto File (Continued)", !.Round = <<2>>]
RoundOnly == [NoHeader EXCEPT !.Round = <<1>>]

ParserHeaders ==
  {PlainHeader, PlainContinued, RoundOnly,
   FirstHeader(1, <<0, 0, 0, 0, 0, 0, 0, 0>>, 1),
   ContinuationHeader(1, <<0, 0, 0, 0, 0, 0, 0, 0>>, 1, 1, 4)}

\* a segment: its tag section and its movetext
ParserSegments ==
  {<<TagsParagraph(h), MovesParagraph(m)>> : h \in ParserHeaders, m \in {<<0>>, <<1, 0>>}}

\* The texts given to getPgnGames: one or two segments, written with blank
\* lines as the engine writes them, with a blank line between the segments
\* only, or without any blank line; and texts without a game.
ParserTexts ==
  {<<>>, <<BlankParagraph>>}
  \cup ParserSegments
  \cup {<<LinesParagraph(s)>> : s \in ParserSegments}
  \cup {s1 \o s2 : s1 \in ParserSegments, s2 \in ParserSegments}
  \cup {<<LinesParagraph(s1), LinesParagraph(s2)>> : s1 \in ParserSegments, s2 \in ParserSegments}
  \cup {<<LinesParagraph(s1 \o s2)>> : s1 \in ParserSegments, s2 \in ParserSegments}

InitParser ==
  /\ pc = "parse"
  /\ transcript \in ParserTexts
  /\ payload = <<>>
  /\ oracle = OracleFour
  /\ fileBitIndex = 0
  /\ chessBoard = <<>>
  /\ boardHeader = NoHeader
  /\ outputPgns = <<>>
  /\ segmentStarts = <<>>
  /\ retryCount = 0
  /\ processingSpecialI = FALSE
  /\ encodedBits = <<>>
  /\ encodeStep = NoStep
  /\ games = <<>>
  /\ originalFileSize = -1
  /\ fileChecksum = <<>>
  /\ encodingVersion = ""
  /\ gameIndex = 0
  /\ gameMoves = <<>>
  /\ moveIndex = 0
  /\ decodeBoard = <<>>
  /\ outputData = <<>>
  /\ allDecodedBits = <<>>
  /\ outFile = <<>>
  /\ totalBytesWritten = 0
  /\ checksumResult = "none"
  /\ decodeStep = NoStep
  /\ RelayIdle
  /\ SocketIdle

InitTermination == InitOf(TerminationInputs)

\* fileBuffer.length === 0 (FileIsEmptyNever: the test left out)
FileIsEmptyNever(fileBuffer) == FALSE

FileIsEmpty(fileBuffer) == Len(fileBuffer) = 0

\* encode, up to the main loop: read the file, refuse an empty one, set the
\* headers of the first game
EncodeStart ==
  /\ pc = "start"
  /\ UNCHANGED outsideCodec
  /\ IF FileIsEmpty(payload)
     THEN /\ pc' = "encodeFailed"
          /\ boardHeader' = boardHeader
          /\ segmentStarts' = segmentStarts
     ELSE \* the loop is entered when there are bits to process; otherwise
          \* the games pushed so far (none) are joined and returned
          /\ pc' = IF fileBitIndex < fileBitsCount THEN "encoding" ELSE "encoded"
          /\ boardHeader' = FirstHeader(Len(payload), calculateChecksum(payload), gameCount)
          /\ segmentStarts' = <<fileBitIndex>>
  /\ UNCHANGED <<payload, oracle, fileBitIndex, chessBoard, outputPgns, retryCount,
                 processingSpecialI, encodedBits, encodeStep, transcript, decodeVars>>

\* processingSpecialI after the test at the top of the loop body
SpecialI(special, bitIndex, fileBytes) ==
  special \/ (bitIndex >= Len(fileBytes) * 8 - 8 /\ fileBytes[(bitIndex \div 8) + 1] = CharI)

\* one iteration of the main loop of encode
EncodeStep ==
  /\ pc = "encoding"
  /\ UNCHANGED outsideCodec
  /\ Len(chessBoard) < MaxBoard
  /\ Len(outputPgns) < MaxGames
  /\ LET special    == SpecialI(processingSpecialI, fileBitIndex, payload)
         legalMoves == LegalMoves(oracle, chessBoard)
         n          == Len(legalMoves)
         checksum   == boardHeader.Checksum
     IN
     /\ processingSpecialI' = special
     /\ IF n = 0
        THEN \* game over: push it and start a continuation game
             /\ outputPgns' = Append(outputPgns, Pgn(boardHeader, chessBoard))
             /\ chessBoard' = <<>>
             /\ retryCount' = 0
             /\ boardHeader' = ContinuationHeader(Len(payload), checksum, gameCount,
                                                  Len(outputPgns) + 1, fileBitIndex)
             /\ segmentStarts' = Append(segmentStarts, fileBitIndex)
             /\ encodeStep' = [kind |-> "over", n |-> 0, index |-> 0, bits |-> 0]
             /\ UNCHANGED <<fileBitIndex, encodedBits, pc, transcript>>
        ELSE IF MaxMoveBits(n) = 0
        THEN \* a single legal move: play it, no bit is carried
             /\ chessBoard' = Append(chessBoard, legalMoves[1])
             /\ encodeStep' = [kind |-> "forced", n |-> n, index |-> 0, bits |-> 0]
             /\ UNCHANGED <<fileBitIndex, encodedBits, pc, outputPgns, segmentStarts, retryCount,
                            boardHeader, transcript>>
        ELSE LET maxMoveBits     == MaxMoveBits(n)
                 remainingBits   == fileBitsCount - fileBitIndex
                 maxBinaryLength == MaxBinaryLength(maxMoveBits, remainingBits, special, fileBitIndex)
                 moveBits        == MoveBits(legalMoves, maxBinaryLength)
                 nextFileChunk   == Substring(EntireFileBinary(payload), fileBitIndex,
                                              fileBitIndex + maxBinaryLength)
                 sel             == SelectMove(moveBits, nextFileChunk, maxBinaryLength,
                                               special, retryCount)
             IN
             IF sel.entry = 0
             THEN \* no match: try again on the next iteration
                  /\ retryCount' = sel.retryCount
                  /\ encodeStep' = [kind |-> "retry", n |-> n, index |-> 0, bits |-> 0]
                  /\ UNCHANGED <<fileBitIndex, encodedBits, pc, outputPgns, segmentStarts, chessBoard,
                                 boardHeader, transcript>>
             ELSE LET bitsEncoded == BitsEncoded(sel.retryCount, maxBinaryLength)
                      newIndex    == fileBitIndex + bitsEncoded
                      history     == Append(chessBoard, moveBits[sel.entry].uci)
                      eofReached  == newIndex >= fileBitsCount
                      ends        == SegmentEnds(n, IsDraw(oracle, history), eofReached, Len(history))
                      pushed      == IF ends THEN Append(outputPgns, Pgn(boardHeader, history))
                                     ELSE outputPgns
                  IN
                  /\ fileBitIndex' = newIndex
                  /\ encodedBits' = encodedBits \o moveBits[sel.entry].bin
                  /\ retryCount' = 0
                  /\ encodeStep' = [kind |-> "bits", n |-> n, index |-> sel.entry - 1,
                                    bits |-> bitsEncoded]
                  /\ IF ends /\ ~eofReached
                     THEN /\ chessBoard' = <<>>
                          /\ boardHeader' = ContinuationHeader(Len(payload), checksum, gameCount,
                                                               Len(pushed), fileBitIndex')
                          /\ segmentStarts' = Append(segmentStarts, fileBitIndex')
                     ELSE /\ chessBoard' = history
                          /\ boardHeader' = boardHeader
                          /\ segmentStarts' = segmentStarts
                  /\ IF eofReached
                     THEN \* leave the loop; the game on the board is pushed when
                          \* it has moves; the games are joined and returned
                          /\ outputPgns' = IF Len(history) > 0
                                           THEN Append(pushed, Pgn(boardHeader, history))
                                           ELSE pushed
                          /\ transcript' = JoinPgns(outputPgns')
                          /\ pc' = "encoded"
                     ELSE /\ outputPgns' = pushed
                          /\ transcript' = transcript
                          /\ pc' = "encoding"
  /\ UNCHANGED <<payload, oracle, decodeVars>>

\* ------------------------------------------- the transcript on its way
GarbageShort == <<<<120, 120>>, <<121>>>>
GarbageLong == <<<<97, 98, 97, 98, 97, 98, 97, 98, 99>>, <<120>>>>

Garbages == {GarbageShort, GarbageLong}

OtherChecksum == <<0, 0, 0, 0, 0, 0, 0, 0>>

\* the first two games of the text in the other order
SwapFirstTwo(text) ==
  IF /\ Len(text) >= 4
     /\ text[1].kind = "tags" /\ text[2].kind = "moves"
     /\ text[3].kind = "tags" /\ text[4].kind = "moves"
  THEN <<text[3], text[4], text[1], text[2]>> \o SubSeq(text, 5, Len(text))
  ELSE text

\* the first action of the first game replaced by the last legal action of
\* the initial position
LastLegalFirst(o, text) ==
  IF Len(text) >= 2 /\ text[2].kind = "moves" /\ LegalCount(o, <<>>) > 0
  THEN [text EXCEPT ![2].moves[1] = LegalMoves(o, <<>>)[LegalCount(o, <<>>)]]
  ELSE text

\* the text cut in the first game, before the last action of that game
CutShort(text) ==
  IF Len(text) >= 2 /\ text[2].kind = "moves"
  THEN IF Len(text[2].moves) > 1
       THEN <<text[1], MovesParagraph(SubSeq(text[2].moves, 1, Len(text[2].moves) - 1))>>
       ELSE <<text[1]>>
  ELSE text

\* the texts decode may be given in place of the transcript encode returned
Tamperings(o, text) ==
  {text, <<>>, <<BlankParagraph, BlankParagraph>>}
  \cup {<<GarbageParagraph(g)>> : g \in Garbages}
  \cup {[text EXCEPT ![j] = GarbageParagraph(g)] :
          j \in {i \in 1..Len(text) : text[i].kind = "moves"}, g \in Garbages}
  \cup {[text EXCEPT ![1].hdr.Checksum = OtherChecksum]}
  \cup {SwapFirstTwo(text), LastLegalFirst(o, text), CutShort(text)}

\* the transcript is handed to decode, as it is or altered
Deliver ==
  /\ pc = "encoded"
  /\ UNCHANGED outsideCodec
  /\ transcript' \in Tamperings(oracle, transcript)
  /\ pc' = "received"
  /\ UNCHANGED <<payload, oracle, encodeVars, decodeVars>>

\* ------------------------------------------------------------------ decode
mayHaveFinalIChar == originalFileSize # -1 /\ originalFileSize > 0 /\ encodingVersion = "1.3"

\* decode, up to the game loop: split the text, refuse a text without
\* games, read the metadata of the first game, sort the games
DecodeStart ==
  /\ pc = "received"
  /\ UNCHANGED outsideCodec
  /\ LET found == getPgnGames(transcript)
     IN  IF Len(found) = 0
         THEN /\ pc' = "decodeFailed"
              /\ UNCHANGED decodeVars
         ELSE LET first   == LoadPgn(oracle, found[1])
                  headers == IF first.ok THEN first.hdr ELSE NoHeader
                  expectedGameCount == IF headers.GameCount # <<>>
                                       THEN ParseDecimal(headers.GameCount) ELSE 0
              IN  /\ originalFileSize' = IF headers.FileSize # <<>>
                                         THEN ParseDecimal(headers.FileSize) ELSE -1
                  /\ fileChecksum' = headers.Checksum
                  /\ encodingVersion' = headers.EncodingVersion
                  /\ games' = SortedGames(oracle, found, expectedGameCount)
                  /\ pc' = "decodeGame"
                  /\ UNCHANGED <<gameIndex, gameMoves, moveIndex, decodeBoard, outputData,
                                 allDecodedBits, outFile, totalBytesWritten, checksumResult,
                                 decodeStep>>
  /\ UNCHANGED <<payload, oracle, encodeVars, transcript>>

\* position after the game loop moves on from game gameIndex
AfterGame == IF gameIndex + 1 < Len(games) THEN "decodeGame" ELSE "decodeTail"

\* originalFileSize !== null && totalBytesWritten >= originalFileSize
ReachedFileSize(written, size) == size # -1 /\ written >= size

\* the game loop, up to the replay of the moves: load the game; a game that
\* does not load goes through the fallback, a game without moves is skipped
DecodeGame ==
  /\ pc = "decodeGame"
  /\ UNCHANGED outsideCodec
  /\ LET game   == games[gameIndex + 1]
         loaded == LoadPgn(oracle, game)
     IN  IF ~loaded.ok
         THEN LET byteArray == FallbackBytes(game.chunks)
              IN  /\ outFile' = outFile \o byteArray
                  /\ totalBytesWritten' = totalBytesWritten + Len(byteArray)
                  /\ gameIndex' = gameIndex + 1
                  /\ pc' = AfterGame
                  /\ UNCHANGED <<gameMoves, moveIndex, decodeBoard>>
         ELSE IF Len(loaded.moves) = 0
         THEN /\ gameIndex' = gameIndex + 1
              /\ pc' = AfterGame
              /\ UNCHANGED <<gameMoves, moveIndex, decodeBoard, outFile, totalBytesWritten>>
         ELSE /\ gameMoves' = loaded.moves
              /\ moveIndex' = 0
              /\ decodeBoard' = <<>>
              /\ pc' = "decodeMove"
              /\ UNCHANGED <<gameIndex, outFile, totalBytesWritten>>
  /\ UNCHANGED <<payload, oracle, encodeVars, transcript, games, originalFileSize, fileChecksum,
                 encodingVersion, outputData, allDecodedBits, checksumResult, decodeStep>>

\* moveBinary: the index of the played move in binary, padded to maxMoveBits
\* (MoveBinaryUnpadded: not padded)
MoveBinaryUnpadded(moveIndexInLegal, n) == NumToBits(moveIndexInLegal)

MoveBinary(moveIndexInLegal, n) == PadStart(NumToBits(moveIndexInLegal), MaxMoveBits(n), 0)

\* legalMoves.length === 1: the move carries no bit (IsForcedNever: the
\* test left out)
IsForcedNever(n) == FALSE

IsForced(n) == n = 1

\* the replay of one move of the game, and what follows the last one
DecodeMove ==
  /\ pc = "decodeMove"
  /\ UNCHANGED outsideCodec
  /\ LET move       == gameMoves[moveIndex + 1]
         legalMoves == LegalMoves(oracle, decodeBoard)
         n          == Len(legalMoves)
         moveIndexInLegal == IndexOf(legalMoves, move)
         lastMove   == moveIndex + 1 >= Len(gameMoves)
     IN  IF n = 0 \/ moveIndexInLegal = -1
         THEN \* no legal move, or a move that cannot be played: leave the game
              /\ decodeStep' = [kind |-> "break", n |-> n, index |-> 0, bits |-> 0]
              /\ gameIndex' = IF ReachedFileSize(totalBytesWritten, originalFileSize)
                              THEN gameIndex ELSE gameIndex + 1
              /\ pc' = IF ReachedFileSize(totalBytesWritten, originalFileSize)
                       THEN "decodeTail" ELSE AfterGame
              /\ UNCHANGED <<moveIndex, decodeBoard, outputData, allDecodedBits, outFile,
                             totalBytesWritten>>
         ELSE IF IsForced(n)
         THEN /\ decodeStep' = [kind |-> "forced", n |-> n, index |-> moveIndexInLegal, bits |-> 0]
              /\ decodeBoard' = Append(decodeBoard, move)
              /\ moveIndex' = moveIndex + 1
              /\ IF lastMove
                 THEN /\ gameIndex' = IF ReachedFileSize(totalBytesWritten, originalFileSize)
                                      THEN gameIndex ELSE gameIndex + 1
                      /\ pc' = IF ReachedFileSize(totalBytesWritten, originalFileSize)
                               THEN "decodeTail" ELSE AfterGame
                 ELSE UNCHANGED <<gameIndex, pc>>
              /\ UNCHANGED <<outputData, allDecodedBits, outFile, totalBytesWritten>>
         ELSE LET moveBinary    == MoveBinary(moveIndexInLegal, n)
                  data          == outputData \o moveBinary
                  completeBytes == Len(data) \div 8
                  byteArray     == IF Len(data) >= 8
                                   THEN BitsToBytes(Substring(data, 0, completeBytes * 8))
                                   ELSE <<>>
                  written       == totalBytesWritten + Len(byteArray)
                  reached       == Len(data) >= 8 /\ ReachedFileSize(written, originalFileSize)
                  leave         == reached \/ lastMove
                  stop          == ReachedFileSize(written, originalFileSize)
              IN  /\ decodeStep' = [kind |-> "bits", n |-> n, index |-> moveIndexInLegal,
                                    bits |-> Len(moveBinary)]
                  /\ decodeBoard' = Append(decodeBoard, move)
                  /\ moveIndex' = moveIndex + 1
                  /\ allDecodedBits' = allDecodedBits \o moveBinary
                  /\ outputData' = IF Len(data) >= 8
                                   THEN Substring(data, completeBytes * 8, Len(data)) ELSE data
                  /\ outFile' = outFile \o byteArray
                  /\ totalBytesWritten' = written
                  /\ IF leave
                     THEN /\ gameIndex' = IF stop THEN gameIndex ELSE gameIndex + 1
                          /\ pc' = IF stop THEN "decodeTail" ELSE AfterGame
                     ELSE UNCHANGED <<gameIndex, pc>>
  /\ UNCHANGED <<payload, oracle, encodeVars, transcript, games, originalFileSize, fileChecksum,
                 encodingVersion, gameMoves, checksumResult>>

\* Position after the checksum verification: a mismatch is logged and
\* nothing is thrown (AfterChecksumFatal: a mismatch thrown to the caller).
AfterChecksumFatal(result) == IF result = "mismatch" THEN "decodeFailed" ELSE "decoded"

AfterChecksum(result) == "decoded"

\* decode, after the game loop: remaining bits, truncation, verification of
\* the text and of the checksum
DecodeTail ==
  /\ pc = "decodeTail"
  /\ UNCHANGED outsideCodec
  /\ LET byteArray == RemainingBytes(outputData, allDecodedBits, totalBytesWritten,
                                     originalFileSize, mayHaveFinalIChar)
         truncated == Truncate(outFile \o byteArray, originalFileSize)
         verified  == VerifyText(truncated, encodingVersion)
         checked   == VerifyChecksum(verified, fileChecksum)
     IN  /\ totalBytesWritten' = totalBytesWritten + Len(byteArray)
         /\ outFile' = checked.file
         /\ checksumResult' = checked.result
         /\ pc' = AfterChecksum(checked.result)
  /\ UNCHANGED <<payload, oracle, encodeVars, transcript, games, originalFileSize, fileChecksum,
                 encodingVersion, gameIndex, gameMoves, moveIndex, decodeBoard, outputData,
                 allDecodedBits, decodeStep>>

Next == EncodeStart \/ EncodeStep \/ Deliver \/ DecodeStart \/ DecodeGame \/ DecodeMove \/ DecodeTail

Spec == Init /\ [][Next]_vars

\* getPgnGames applied to a text
ParseText ==
  /\ pc = "parse"
  /\ UNCHANGED outsideCodec
  /\ games' = getPgnGames(transcript)
  /\ pc' = "parsed"
  /\ UNCHANGED <<payload, oracle, encodeVars, transcript, originalFileSize, fileChecksum,
                 encodingVersion, gameIndex, gameMoves, moveIndex, decodeBoard, outputData,
                 allDecodedBits, outFile, totalBytesWritten, checksumResult, decodeStep>>

NextParser == ParseText

SpecParser == InitParser /\ [][NextParser]_vars

\* encode is a synchronous computation: it keeps taking steps while it can
SpecTermination ==
  InitTermination /\ [][Next]_vars /\ WF_vars(EncodeStart) /\ WF_vars(EncodeStep)

\* ================================================================== claims
\* the transcript given to decode is the one encode returned
Intact == transcript = JoinPgns(outputPgns)

\* decode has been entered
DecodeEntered == pc \in {"decodeFailed", "decodeGame", "decodeMove", "decodeTail", "decoded"}

\* floor(log2 n), stated without the code's computation
Log2Floor(n) == CHOOSE k \in 0..n : Pow2(k) <= n /\ n < Pow2(k + 1)

\* the Checksum header encode wrote
WrittenChecksum == outputPgns[1].hdr.Checksum

\* C1: round trip.  When decode has processed the transcript encode returned
\* for the payload, the output file is the payload, byte for byte, and the
\* checksum of the output is the Checksum header encode wrote.
C1_RoundTrip ==
  (pc = "decoded" /\ Intact)
    => (outFile = payload /\ calculateChecksum(outFile) = WrittenChecksum)

\* C2: truncation.  When decode returns and the first segment declares
\* FileSize S, the output file has at most S bytes.
C2_AtMostPayloadSize ==
  (pc = "decoded" /\ originalFileSize # -1) => Len(outFile) <= originalFileSize

\* C3: empty payload.  encode of a zero-length payload fails: no transcript
\* is returned, no action is played and no segment is emitted.
C3_EmptyPayloadFails ==
  (Len(payload) = 0 /\ pc # "start")
    => /\ pc = "encodeFailed"
       /\ transcript = <<>>
       /\ outputPgns = <<>>
       /\ chessBoard = <<>>
       /\ encodeStep = NoStep

C3_Witness == Len(payload) = 0 /\ pc = "encodeFailed"

\* a block that the engine loads as a game
Parseable(paragraph) == ~IsBlank(paragraph) /\ LoadPgn(oracle, paragraph).ok

NoParseableSegment == \A i \in 1..Len(transcript) : ~Parseable(transcript[i])

OneSegmentGarbled ==
  /\ Len(transcript) = Len(JoinPgns(outputPgns))
  /\ Cardinality({i \in 1..Len(transcript) : transcript[i] # JoinPgns(outputPgns)[i]}) = 1
  /\ \E i \in 1..Len(transcript) : transcript[i].kind = "garbage"
  /\ \E i \in 1..Len(transcript) : transcript[i].kind = "moves"

\* the bits of the moves of one valid segment, replayed from the initial
\* position
RECURSIVE SegmentBits(_, _)
SegmentBits(hist, moves) ==
  IF Len(moves) = 0 THEN <<>>
  ELSE LET legal == LegalMoves(oracle, hist)
           code  == IF Len(legal) > 1
                    THEN PadStart(NumToBits(IndexOf(legal, Head(moves))), Log2Floor(Len(legal)), 0)
                    ELSE <<>>
       IN  code \o SegmentBits(Append(hist, Head(moves)), Tail(moves))

\* the bits of the valid segments of the first k paragraphs, in order
RECURSIVE ValidBits(_)
ValidBits(k) ==
  IF k = 0 THEN <<>>
  ELSE ValidBits(k - 1)
       \o (IF transcript[k].kind = "moves" THEN SegmentBits(<<>>, transcript[k].moves) ELSE <<>>)

\* the whole bytes the valid segments yield, at most FileSize of them
RecoverableBytes ==
  LET bits  == ValidBits(Len(transcript))
      whole == BitsToBytes(Substring(bits, 0, (Len(bits) \div 8) * 8))
  IN  Substring(whole, 0, originalFileSize)

\* C5: corrupt segment.  With one segment's movetext replaced by garbage and
\* another segment valid, decode does not fail and its output begins with the
\* bytes that the remaining valid segments yield.
C5_CorruptSegmentResilience ==
  (OneSegmentGarbled /\ DecodeEntered)
    => /\ pc # "decodeFailed"
       /\ pc = "decoded" => StartsWith(outFile, RecoverableBytes)

\* C6: direct index.  The action applied by a bit-carrying step of encode in
\* a state with n legal actions has an index below 2^floor(log2 n).
C6_DirectIndex ==
  encodeStep.kind = "bits" => encodeStep.index < Pow2(Log2Floor(encodeStep.n))

C6_Witness == encodeStep.kind = "bits" /\ encodeStep.n = 5 /\ encodeStep.index = 3

\* C7: zero-bit step.  In a state with exactly one legal action, encode
\* applies that action and leaves fileBitIndex unchanged, and decode replays
\* the action and appends no bit (nothing is written either).
C7_ZeroBitStep ==
  [][ /\ (pc = "encoding" /\ LegalCount(oracle, chessBoard) = 1)
           => /\ fileBitIndex' = fileBitIndex
              /\ chessBoard' = Append(chessBoard, LegalMoves(oracle, chessBoard)[1])
      /\ (pc = "decodeMove" /\ LegalCount(oracle, decodeBoard) = 1)
           => /\ decodeBoard' = Append(decodeBoard, gameMoves[moveIndex + 1])
              /\ outputData' = outputData
              /\ allDecodedBits' = allDecodedBits
              /\ outFile' = outFile ]_vars

C7_Witness == decodeStep.kind = "forced" /\ decodeStep.n = 1 /\ Intact

\* C8: no segment emitted by encode holds more than 80 actions.
C8_SegmentCap ==
  \A i \in 1..Len(outputPgns) : Len(outputPgns[i].moves) <= MaxHistory

\* encode closed a segment before the payload was exhausted
SegmentSplit ==
  \E i \in 1..Len(outputPgns) : outputPgns[i].hdr.Event = "ChessCrypto File (Continued)"

\* C9: segment splitting.  When encode had to open a second segment, the
\* transcript has at least two segments and decode of it returns the payload.
C9_SegmentSplitting ==
  (pc = "decoded" /\ Intact /\ SegmentSplit)
    => (Len(outputPgns) >= 2 /\ outFile = payload)

\* C10: a checksum mismatch is not fatal.  Whenever the verification found
\* the checksum of the output different from the Checksum header, decode has
\* completed without raising; decode raises only for a transcript without
\* blocks, before any verification.
C10_MismatchNotFatal ==
  /\ checksumResult = "mismatch" => (pc = "decoded" /\ fileChecksum # <<>>)
  /\ pc = "decodeFailed" => (checksumResult = "none" /\ Len(getPgnGames(transcript)) = 0)

C10_Witness == pc = "decoded" /\ checksumResult = "mismatch" /\ Len(outFile) > 0

\* ------------------------------------------------ FNV-1a on bit vectors
\* A 32-bit word as its 32 bits, least significant first.
WordOfHex(digits) ==
  [i \in 1..32 |-> (digits[8 - ((i - 1) \div 4)] \div Pow2((i - 1) % 4)) % 2] \o <<>>

HexOfWord(w) ==
  [d \in 1..8 |-> LET base == 4 * (8 - d)
                  IN  w[base + 1] + 2 * w[base + 2] + 4 * w[base + 3] + 8 * w[base + 4]]

\* (a + b) mod 2^32, by columns with the carry rippled through a fold
RECURSIVE AddFrom(_, _, _, _)
AddFrom(a, b, i, carry) ==
  IF i > 32 THEN <<>>
  ELSE <<(a[i] + b[i] + carry) % 2>> \o AddFrom(a, b, i + 1, (a[i] + b[i] + carry) \div 2)

WordAdd(a, b) == AddFrom(a, b, 1, 0)

\* (a * 2^s) mod 2^32
WordShl(a, s) == [i \in 1..s |-> 0] \o SubSeq(a, 1, 32 - s)

\* a * 16777619 mod 2^32, 16777619 = 2^24 + 2^8 + 2^7 + 2^4 + 2^1 + 2^0
WordTimesPrime(a) ==
  WordAdd(WordShl(a, 24),
    WordAdd(WordShl(a, 8),
      WordAdd(WordShl(a, 7),
        WordAdd(WordShl(a, 4),
          WordAdd(WordShl(a, 1), a)))))

WordXorByte(a, byte) ==
  [i \in 1..8 |-> (a[i] + (byte \div Pow2(i - 1))) % 2] \o SubSeq(a, 9, 32)

\* 2166136261 = 0x811c9dc5
Fnv1aBasis == WordOfHex(<<8, 1, 1, 12, 9, 13, 12, 5>>)

RECURSIVE Fnv1aWord(_, _)
Fnv1aWord(w, bytes) ==
  IF Len(w) = 32 /\ Len(bytes) = 0 THEN w
  ELSE Fnv1aWord(WordTimesPrime(WordXorByte(w, Head(bytes))), Tail(bytes))

Fnv1aHex(bytes) == HexOfWord(Fnv1aWord(Fnv1aBasis, bytes))

\* the published FNV-1a values of "" and "a"
Fnv1aOfEmpty == <<8, 1, 1, 12, 9, 13, 12, 5>>
Fnv1aOfA == <<14, 4, 0, 12, 2, 9, 2, 12>>

\* C13: calculateChecksum is 32-bit FNV-1a written as 8 hexadecimal digits:
\* the checksum of the payload, the Checksum header encode wrote and the
\* checksum of decode's output are the FNV-1a values of those byte strings
\* (the empty string included).
C13_ChecksumIsFnv1a ==
  /\ pc = "start" => /\ calculateChecksum(payload) = Fnv1aHex(payload)
                     /\ Len(calculateChecksum(payload)) = 8
                     /\ Len(payload) = 0 => calculateChecksum(payload) = Fnv1aOfEmpty
                     /\ Fnv1aHex(<<97>>) = Fnv1aOfA
  /\ pc = "encoded" => boardHeader.Checksum = Fnv1aHex(payload)
  /\ pc = "decoded" => calculateChecksum(outFile) = Fnv1aHex(outFile)

C13_Witness ==
  /\ pc = "decoded"
  /\ checksumResult = "verified"
  /\ Len(outFile) = 2
  /\ boardHeader.Checksum = calculateChecksum(outFile)


\* the games encode played: the entries of outputPgns, a game pushed twice
\* counted once (two games always differ in their Round tag)
PlayedGames == {outputPgns[i] : i \in 1..Len(outputPgns)}

RECURSIVE ActionCount(_)
ActionCount(gameSet) ==
  IF gameSet = {} THEN 0
  ELSE LET g == CHOOSE x \in gameSet : TRUE
       IN  Len(g.moves) + ActionCount(gameSet \ {g})

\* C12: with 4 legal actions in every state and no draw, every step of encode
\* carries 2 bits, encode of an N-byte payload plays 4*N actions in all, and
\* decode of the transcript returns the payload with a matching checksum.
C12_FourWayBranching ==
  oracle = OracleFour
    => /\ encodeStep # NoStep => (encodeStep.kind = "bits" /\ encodeStep.bits = 2)
       /\ pc \in {"encoded", "received"} => ActionCount(PlayedGames) = 4 * Len(payload)
       /\ (pc = "decoded" /\ Intact)
            => (outFile = payload /\ calculateChecksum(outFile) = WrittenChecksum)


\* the history encode has after a step: the board, or the game just pushed
\* when the board was reset
HistoryAfterStep(board, pgns) == IF board = <<>> THEN pgns[Len(pgns)].moves ELSE board

\* C14: a step of encode in a state with n >= 2 legal actions, k = floor(log2
\* n) and L = min(k, total_bits - cursor) applies the action whose index is
\* the value of the payload bits [cursor, cursor + L) read most significant
\* bit first, and advances the cursor by L; the code words played so far are
\* the payload bits up to the cursor, and the cursor is at most total_bits.
C14_StepReadsNextBits ==
  /\ [][ (pc = "encoding" /\ LegalCount(oracle, chessBoard) >= 2)
           => LET legal == LegalMoves(oracle, chessBoard)
                  L     == Min(Log2Floor(Len(legal)), fileBitsCount - fileBitIndex)
                  v     == ParseBits(Substring(EntireFileBinary(payload), fileBitIndex,
                                               fileBitIndex + L))
              IN  /\ HistoryAfterStep(chessBoard', outputPgns') = Append(chessBoard, legal[v + 1])
                  /\ fileBitIndex' = fileBitIndex + L ]_vars
  /\ [](/\ fileBitIndex <= fileBitsCount
        /\ encodedBits = Substring(EntireFileBinary(payload), 0, fileBitIndex))

C14_Witness ==
  /\ pc = "encoded"
  /\ encodeStep.kind = "bits"
  /\ encodeStep.bits < Log2Floor(encodeStep.n)
  /\ encodedBits = EntireFileBinary(payload)


\* the number of games encode played: the Round tag of the game on the board
\* (1 for the first game, one more for every continuation game)
GamesPlayed == ParseDecimal(boardHeader.Round)

\* C15: in the transcript encode returns every segment appears once: no two
\* of the joined blocks are the same game, and the number of joined blocks is
\* the number of games encode played.
C15_EverySegmentOnce ==
  pc = "encoded"
    => /\ \A i, j \in 1..Len(outputPgns) : i # j => outputPgns[i] # outputPgns[j]
       /\ Len(outputPgns) = GamesPlayed


\* a text made of segments: a tag section followed by its movetext, repeated
IsSegmentList(text) ==
  /\ Len(text) > 0
  /\ Len(text) % 2 = 0
  /\ \A i \in 1..Len(text) : text[i].kind = (IF i % 2 = 1 THEN "tags" ELSE "moves")

SegmentsOf(text) == {<<text[2 * i - 1], text[2 * i]>> : i \in 1..(Len(text) \div 2)}

\* every segment carries a GameIndex tag
EverySegmentIndexed(text) ==
  \A i \in 1..(Len(text) \div 2) : text[2 * i - 1].hdr.GameIndex # <<>>

AscendingIndex(text) ==
  \A i, j \in 1..(Len(text) \div 2) :
     i < j => ParseDecimal(text[2 * i - 1].hdr.GameIndex) <= ParseDecimal(text[2 * j - 1].hdr.GameIndex)

\* decode is past its sort and has not failed
Replaying == pc \in {"decodeGame", "decodeMove", "decodeTail", "decoded"}

\* C11: segment ordering.  For a transcript of segments that all carry a
\* GameIndex, decode replays the same segments in ascending GameIndex,
\* whatever their order in the transcript, and a permutation of the segments
\* encode returned decodes to the payload; when a segment lacks a GameIndex,
\* decode replays the blocks in transcript order.
C11_SegmentOrdering ==
  (Replaying /\ IsSegmentList(transcript))
    => IF EverySegmentIndexed(transcript)
       THEN /\ IsSegmentList(games)
            /\ SegmentsOf(games) = SegmentsOf(transcript)
            /\ AscendingIndex(games)
            /\ (pc = "decoded" /\ SegmentsOf(transcript) = SegmentsOf(JoinPgns(outputPgns)))
                 => outFile = payload
       ELSE games = transcript


\* C18: when encode opens a new segment (the payload is not exhausted), the
\* header of the new segment carries GameIndex = index of the previous
\* segment + 1 (the first segment has 1) and BitPosition = the bit cursor at
\* that moment.
C18_ContinuationHeader ==
  (pc = "encoding" /\ Len(outputPgns) >= 1 /\ chessBoard = <<>>)
    => /\ outputPgns[1].hdr.GameIndex = <<1>>
       /\ outputPgns[Len(outputPgns)].hdr.GameIndex = ToDecimal(Len(outputPgns))
       /\ boardHeader.GameIndex = ToDecimal(Len(outputPgns) + 1)
       /\ boardHeader.BitPosition = ToDecimal(fileBitIndex)


\* the k-bit binary representation of v, most significant bit first
KBits(v, k) == [i \in 1..k |-> (v \div Pow2(k - i)) % 2]

\* C16: for every action decode replays in a state with n > 1 legal actions,
\* decode appends exactly k = floor(log2 n) bits to its accumulator, the
\* k-bit binary representation of the action's index when the index is
\* below 2^k.
C16_DecodeAppendsKBits ==
  [][ LET legal == LegalMoves(oracle, decodeBoard)
          k     == Log2Floor(Len(legal))
          index == IndexOf(legal, gameMoves[moveIndex + 1])
      IN  (pc = "decodeMove" /\ Len(legal) > 1 /\ index # -1)
            => /\ decodeBoard' = Append(decodeBoard, gameMoves[moveIndex + 1])
               /\ Len(allDecodedBits') = Len(allDecodedBits) + k
               /\ index < Pow2(k) => allDecodedBits' = allDecodedBits \o KBits(index, k) ]_vars


\* C19: early stop.  Once the bytes decode has written reach the FileSize of
\* the first segment, decode replays no further action, of the current
\* segment or of a later one, and adds no bit to its accumulator.
C19_EarlyStop ==
  [][ (pc \in {"decodeGame", "decodeMove"}
       /\ ReachedFileSize(totalBytesWritten, originalFileSize))
        => /\ moveIndex' # moveIndex + 1
           /\ allDecodedBits' = allDecodedBits
           /\ outputData' = outputData ]_vars


\* a bit string completed with zero bits up to the next byte boundary
ZeroPadded(bits) == bits \o [i \in 1..((8 - (Len(bits) % 8)) % 8) |-> 0]

\* no block of the transcript failed to load (every byte of the output comes
\* from replayed actions)
OnlyReplay == \A i \in 1..Len(transcript) : transcript[i].kind # "garbage"

\* C20: short transcript.  When the replayed segments yield B bits, fewer
\* than FileSize * 8, the output of decode is those B bits followed by zero
\* bits up to the next byte boundary: ceil(B / 8) bytes and no more.
C20_ShortTranscript ==
  (pc = "decoded" /\ OnlyReplay /\ originalFileSize # -1
   /\ Len(allDecodedBits) < originalFileSize * 8)
    => /\ Len(outFile) = (Len(allDecodedBits) + 7) \div 8
       /\ outFile = BitsToBytes(ZeroPadded(allDecodedBits))


\* encode has returned a transcript or raised
EncodeEnded == pc \notin {"start", "encoding"}

TruncatedFile ==
  Truncate(outFile \o RemainingBytes(outputData, allDecodedBits, totalBytesWritten,
                                     originalFileSize, mayHaveFinalIChar),
           originalFileSize)

\* C21: the steps of decode that run after the truncation (verification of
\* the text, verification of the checksum) leave every byte of the output as
\* the truncation left it, whether the checksum matches or not.
C21_VerificationKeepsBytes ==
  [][ pc = "decodeTail" => outFile' = TruncatedFile ]_vars

\* the game the loop of decode is at does not load
GameFailsToLoad == pc = "decodeGame" /\ ~LoadPgn(oracle, games[gameIndex + 1]).ok

\* C22: a segment that fails to parse is skipped as a whole: it adds no bit
\* and no byte to the output of decode, and decode goes on with the segment
\* after it.
C22_FailedSegmentSkipped ==
  [][ GameFailsToLoad
        => /\ outFile' = outFile
           /\ totalBytesWritten' = totalBytesWritten
           /\ allDecodedBits' = allDecodedBits
           /\ outputData' = outputData
           /\ gameIndex' = gameIndex + 1 ]_vars

\* encode is at the top of its loop in a state with more than one legal action
BitCarryingNext == pc = "encoding" /\ LegalCount(oracle, chessBoard) > 1

\* the code words and the chunk of the iteration that comes next
NextMaxBinaryLength ==
  MaxBinaryLength(MaxMoveBits(LegalCount(oracle, chessBoard)), fileBitsCount - fileBitIndex,
                  SpecialI(processingSpecialI, fileBitIndex, payload), fileBitIndex)

NextMoveBits == MoveBits(LegalMoves(oracle, chessBoard), NextMaxBinaryLength)

NextFileChunk ==
  Substring(EntireFileBinary(payload), fileBitIndex, fileBitIndex + NextMaxBinaryLength)

NextSelection ==
  SelectMove(NextMoveBits, NextFileChunk, NextMaxBinaryLength,
             SpecialI(processingSpecialI, fileBitIndex, payload), retryCount)

\* C23: at every bit-carrying step of encode the next L payload bits are the
\* code word of one of the first 2^L legal actions, found by the exact-match
\* lookup; retryCount is 0 at the start of every iteration, and no iteration
\* goes through the reduced-length retry or the fallback selection.
C23_ExactMatchAlwaysSucceeds ==
  /\ retryCount = 0
  /\ encodeStep.kind # "retry"
  /\ BitCarryingNext
       => /\ ParseBits(NextFileChunk) < Pow2(NextMaxBinaryLength)
          /\ Pow2(NextMaxBinaryLength) <= LegalCount(oracle, chessBoard)
          /\ NextSelection.entry = ParseBits(NextFileChunk) + 1
          /\ NextMoveBits[NextSelection.entry].bin = NextFileChunk
          /\ NextSelection.retryCount = 0

C23_Witness ==
  BitCarryingNext /\ encodeStep.kind = "bits" /\ NextMaxBinaryLength < MaxMoveBits(LegalCount(oracle, chessBoard))

\* the text is one block: two segments on consecutive lines, each a tag
\* section that begins with an Event tag and a movetext
TwoSegmentsOneBlock ==
  /\ Len(transcript) = 1
  /\ transcript[1].kind = "lines"
  /\ Len(transcript[1].parts) = 4
  /\ \A j \in {1, 3} : /\ transcript[1].parts[j].kind = "tags"
                       /\ transcript[1].parts[j].hdr.Event # ""
                       /\ transcript[1].parts[j + 1].kind = "moves"

\* C24: a text of two segments that holds no blank line (one block) is
\* returned by getPgnGames as two segments, cut before the second Event tag,
\* also when the segments carry the FileSize, Checksum and EncodingVersion
\* tags.
C24_SecondarySplit ==
  (pc = "parsed" /\ TwoSegmentsOneBlock)
    => games = <<LinesParagraph(SubSeq(transcript[1].parts, 1, 2)),
                 LinesParagraph(SubSeq(transcript[1].parts, 3, 4))>>

\* decode is about to replay a movetext of the transcript encode returned
ReplayStarts == pc = "decodeGame" /\ Intact /\ games[gameIndex + 1].kind = "moves"

\* the games encode pushed that have a movetext, by their index in outputPgns
PlayedIndices == {i \in 1..Len(outputPgns) : Len(outputPgns[i].moves) > 0}

\* the game of outputPgns whose movetext is the block decode is at: the j-th
\* played game for the j-th movetext of the text
ReplayedGame ==
  LET j == Cardinality({i \in 1..(gameIndex + 1) : games[i].kind = "moves"})
  IN  CHOOSE i \in PlayedIndices : Cardinality({h \in PlayedIndices : h <= i}) = j

\* fileBitIndex when encode opened the game (the game pushed a second time
\* at the end was opened with the one before it)
CursorAtOpening(i) == segmentStarts[Min(i, Len(segmentStarts))]

\* C25: when decode replays the transcript encode returned, at the start of
\* the replay of each segment the bits decode has produced (8 per byte
\* written, and the bits pending) are as many as the bit cursor of encode when
\* it opened that segment, which is the BitPosition tag where there is one.
C25_ResumeOffset ==
  ReplayStarts
    => /\ totalBytesWritten * 8 + Len(outputData) = CursorAtOpening(ReplayedGame)
       /\ outputPgns[ReplayedGame].hdr.BitPosition # <<>>
            => ParseDecimal(outputPgns[ReplayedGame].hdr.BitPosition) = CursorAtOpening(ReplayedGame)
       /\ ReplayedGame = 1 => CursorAtOpening(ReplayedGame) = 0

C25_Witness == ReplayStarts /\ ReplayedGame >= 2 /\ Len(outputData) > 0

\* =============================================================== game relay
\* the codec at rest
CodecIdle ==
  /\ payload = <<>>
  /\ oracle = OracleFour
  /\ fileBitIndex = 0
  /\ chessBoard = <<>>
  /\ boardHeader = NoHeader
  /\ outputPgns = <<>>
  /\ segmentStarts = <<>>
  /\ retryCount = 0
  /\ processingSpecialI = FALSE
  /\ encodedBits = <<>>
  /\ encodeStep = NoStep
  /\ transcript = <<>>
  /\ games = <<>>
  /\ originalFileSize = -1
  /\ fileChecksum = <<>>
  /\ encodingVersion = ""
  /\ gameIndex = 0
  /\ gameMoves = <<>>
  /\ moveIndex = 0
  /\ decodeBoard = <<>>
  /\ outputData = <<>>
  /\ allDecodedBits = <<>>
  /\ outFile = <<>>
  /\ totalBytesWritten = 0
  /\ checksumResult = "none"
  /\ decodeStep = NoStep

codecVars == <<payload, oracle, encodeVars, transcript, decodeVars>>

InitRelay == pc = "relay" /\ CodecIdle /\ RelayIdle /\ SocketIdle

\* ws && ws.readyState === WebSocket.OPEN, with the readyStates rs
Open(rs, c) == c # 0 /\ rs[c] = "OPEN"

IsOpen(c) == Open(readyState, c)

\* a room that is never found empty
IsEmptyRoomNever(room) == room = NoRoom

\* !room.players.white && !room.players.black && room.spectators.length === 0
IsEmptyRoom(room) == room.white = 0 /\ room.black = 0 /\ room.spectators = {}

\* broadcastToRoom: the messages sent, to the open connections of the room
BroadcastToRoom(rs, room, type) ==
  IF room = NoRoom THEN {}
  ELSE {<<c, type>> : c \in {d \in ({room.white, room.black} \cup room.spectators) : Open(rs, d)}}

\* sendRoomState: game_start to the new player when the opponent is connected
SendRoomState(rs, ws, room) ==
  IF \/ room.white = ws /\ Open(rs, room.black)
     \/ room.black = ws /\ room.white # ws /\ Open(rs, room.white)
  THEN {<<ws, "game_start">>}
  ELSE {}

\* handleConnection for a room that exists: the room afterwards, what the
\* connection is told it is, and whether the start of the game is announced
JoinRoom(room, ws, whiteConnected, blackConnected) ==
  IF whiteConnected /\ ~blackConnected
  THEN [room |-> [room EXCEPT !.black = ws], as |-> "black", starts |-> TRUE]
  ELSE IF ~whiteConnected /\ blackConnected
  THEN [room |-> [room EXCEPT !.white = ws], as |-> "white", starts |-> TRUE]
  ELSE IF whiteConnected /\ blackConnected
  THEN [room |-> [room EXCEPT !.spectators = @ \cup {ws}], as |-> "spectator", starts |-> FALSE]
  ELSE IF room.white = 0
  THEN [room |-> [room EXCEPT !.white = ws], as |-> "white", starts |-> FALSE]
  ELSE IF room.black = 0
  THEN [room |-> [room EXCEPT !.black = ws], as |-> "black", starts |-> FALSE]
  ELSE [room |-> [room EXCEPT !.spectators = @ \cup {ws}], as |-> "spectator", starts |-> FALSE]

\* the message that tells a connection what it is
AssignmentMessage(as) == IF as = "spectator" THEN "spectator_joined" ELSE "color_assigned"

\* setTimeout callbacks: the repeated game_start (1 s), the end of the grace
\* period of a player (10 s)
StartTimer == [kind |-> "start", ws |-> 0, player |-> "none"]

GraceTimer(ws, player) == [kind |-> "grace", ws |-> ws, player |-> player]

\* closed players whose grace period has not ended
AwaitedPlayers ==
  {c \in Connections : \E i \in 1..Len(timers) : timers[i].kind = "grace" /\ timers[i].ws = c}

\* wss.on('connection') and handleConnection: a new connection to the room
Connect ==
  /\ pc = "relay"
  /\ \E ws \in Connections :
       /\ readyState[ws] = "NONE"
       /\ \A c \in 1..(ws - 1) : readyState[c] # "NONE"
       /\ LET rs == [readyState EXCEPT ![ws] = "OPEN"]
          IN  /\ readyState' = rs
              /\ rejoined' = rejoined \cup AwaitedPlayers
              /\ IF rooms = NoRoom
                 THEN LET room == [id |-> roomsCreated + 1, white |-> ws, black |-> 0,
                                   spectators |-> {}, stale |-> FALSE]
                      IN  /\ rooms' = room
                          /\ roomsCreated' = roomsCreated + 1
                          /\ handlers' = [handlers EXCEPT ![ws] = room.id]
                          /\ assigned' = [assigned EXCEPT ![ws] = "white"]
                          /\ sent' = {<<ws, "color_assigned">>} \cup SendRoomState(rs, ws, room)
                          /\ timers' = timers
                 ELSE LET joined == JoinRoom([rooms EXCEPT !.stale = FALSE], ws,
                                             Open(rs, rooms.white), Open(rs, rooms.black))
                      IN  /\ rooms' = joined.room
                          /\ roomsCreated' = roomsCreated
                          /\ handlers' = [handlers EXCEPT ![ws] = rooms.id]
                          /\ assigned' = [assigned EXCEPT ![ws] = joined.as]
                          /\ sent' = {<<ws, AssignmentMessage(joined.as)>>}
                                     \cup (IF joined.starts
                                           THEN BroadcastToRoom(rs, joined.room, "game_start")
                                           ELSE {})
                                     \cup SendRoomState(rs, ws, joined.room)
                          /\ timers' = IF joined.starts THEN Append(timers, StartTimer) ELSE timers
  /\ UNCHANGED <<pc, codecVars, socketVars, closeEvents>>

\* a connection closes; its 'close' event is emitted later
Close ==
  /\ pc = "relay"
  /\ \E c \in Connections :
       /\ readyState[c] = "OPEN"
       /\ readyState' = [readyState EXCEPT ![c] = "CLOSED"]
       /\ closeEvents' = closeEvents \cup {c}
  /\ sent' = {}
  /\ UNCHANGED <<pc, codecVars, socketVars, rooms, roomsCreated, handlers, timers, assigned, rejoined>>

\* ws.on('close'): handleDisconnection
HandleDisconnection ==
  /\ pc = "relay"
  /\ \E ws \in closeEvents :
       /\ closeEvents' = closeEvents \ {ws}
       /\ IF rooms = NoRoom
          THEN UNCHANGED <<rooms, timers, rejoined>>
          ELSE IF rooms.white = ws
          THEN /\ rooms' = [rooms EXCEPT !.stale = FALSE]
               /\ timers' = Append(timers, GraceTimer(ws, "white"))
               /\ rejoined' = rejoined
          ELSE IF rooms.black = ws
          THEN /\ rooms' = [rooms EXCEPT !.stale = FALSE]
               /\ timers' = Append(timers, GraceTimer(ws, "black"))
               /\ rejoined' = rejoined
          ELSE LET room == [rooms EXCEPT !.spectators = @ \ {ws}, !.stale = FALSE]
               IN  /\ rooms' = IF IsEmptyRoom(room) THEN NoRoom ELSE room
                   /\ timers' = timers
                   /\ rejoined' = rejoined
  /\ sent' = {}
  /\ UNCHANGED <<pc, codecVars, socketVars, readyState, roomsCreated, handlers, assigned>>

\* A timer may fire when those set before it with the same or a shorter
\* delay have fired.
MayFire(i) ==
  IF timers[i].kind = "grace" THEN i = 1
  ELSE \A j \in 1..(i - 1) : timers[j].kind # "start"

RemoveAt(seq, i) == SubSeq(seq, 1, i - 1) \o SubSeq(seq, i + 1, Len(seq))

\* the callback of handleDisconnection, 10 s after the close of a player
GraceExpires(timer) ==
  IF rooms = NoRoom
  THEN /\ rooms' = rooms
       /\ sent' = {}
  ELSE IF \/ timer.player = "white" /\ rooms.white = timer.ws
          \/ timer.player = "black" /\ rooms.black = timer.ws
  THEN LET room == IF timer.player = "white" THEN [rooms EXCEPT !.white = 0]
                   ELSE [rooms EXCEPT !.black = 0]
       IN  /\ sent' = BroadcastToRoom(readyState, room, "game_end")
           /\ rooms' = IF IsEmptyRoom(room) THEN NoRoom ELSE room
  ELSE /\ rooms' = rooms
       /\ sent' = {}

\* a setTimeout callback runs
FireTimer ==
  /\ pc = "relay"
  /\ \E i \in 1..Len(timers) :
       /\ MayFire(i)
       /\ timers' = RemoveAt(timers, i)
       /\ IF timers[i].kind = "grace"
          THEN /\ GraceExpires(timers[i])
               /\ rejoined' = rejoined \ {timers[i].ws}
          ELSE /\ sent' = BroadcastToRoom(readyState, rooms, "game_start")
               /\ UNCHANGED <<rooms, rejoined>>
  /\ UNCHANGED <<pc, codecVars, socketVars, readyState, closeEvents, roomsCreated, handlers, assigned>>

MessageTypes == {"ping", "move", "game_over"}

\* ws.on('message') and handleMessage
HandleMessage ==
  /\ pc = "relay"
  /\ \E ws \in Connections, type \in MessageTypes :
       /\ IsOpen(ws)
       /\ handlers[ws] # 0
       /\ rooms' = IF rooms # NoRoom /\ rooms.id = handlers[ws]
                   THEN [rooms EXCEPT !.stale = FALSE] ELSE rooms
       /\ sent' = IF rooms = NoRoom THEN {}
                  ELSE IF type = "ping" THEN {<<ws, "pong">>}
                  ELSE IF type = "game_over" THEN BroadcastToRoom(readyState, rooms, "game_end")
                  ELSE LET otherPlayer == IF rooms.white = ws THEN rooms.black ELSE rooms.white
                       IN  IF otherPlayer # 0 /\ ws \in {rooms.white, rooms.black} /\ IsOpen(otherPlayer)
                           THEN {<<otherPlayer, "move">>} ELSE {}
  /\ UNCHANGED <<pc, codecVars, socketVars, readyState, closeEvents, roomsCreated, handlers,
                 timers, assigned, rejoined>>

\* 30 minutes pass without activity in the room: every timer has fired and
\* every close has been handled long before
BecomeInactive ==
  /\ pc = "relay"
  /\ rooms # NoRoom /\ ~rooms.stale
  /\ timers = <<>> /\ closeEvents = {}
  /\ rooms' = [rooms EXCEPT !.stale = TRUE]
  /\ sent' = {}
  /\ UNCHANGED <<pc, codecVars, socketVars, readyState, closeEvents, roomsCreated, handlers,
                 timers, assigned, rejoined>>

\* the interval of the constructor: cleanupInactiveRooms
cleanupInactiveRooms ==
  /\ pc = "relay"
  /\ rooms # NoRoom /\ rooms.stale
  /\ rooms' = NoRoom
  /\ sent' = {}
  /\ UNCHANGED <<pc, codecVars, socketVars, readyState, closeEvents, roomsCreated, handlers,
                 timers, assigned, rejoined>>

NextRelay ==
  Connect \/ Close \/ HandleDisconnection \/ FireTimer \/ HandleMessage
    \/ BecomeInactive \/ cleanupInactiveRooms

SpecRelay == InitRelay /\ [][NextRelay]_vars

\* the event loop runs the handlers of the events and timers that are due
SpecRelayFair ==
  InitRelay /\ [][NextRelay]_vars /\ WF_vars(HandleDisconnection) /\ WF_vars(FireTimer)

\* a connection arrives in this step
Arrives(ws) == readyState[ws] = "NONE" /\ readyState'[ws] = "OPEN"

\* the grace timer at the head of the timers fires in this step
GraceFires == timers # <<>> /\ timers[1].kind = "grace" /\ timers' = Tail(timers)

GameEndSent == \E c \in Connections : <<c, "game_end">> \in sent'

\* C26: a connection that arrives while the grace period of a closed player
\* runs is assigned a colour, never spectator; and when the grace timer of a
\* player fires after a connection arrived in the period, no game_end is
\* broadcast and no player slot is cleared.
C26_RejoinWithinGrace ==
  [][ /\ \A ws \in Connections :
           Arrives(ws) /\ AwaitedPlayers # {} => assigned'[ws] \in {"white", "black"}
      /\ GraceFires /\ timers[1].ws \in rejoined =>
           /\ ~GameEndSent
           /\ rooms' # NoRoom
           /\ rooms'.white = rooms.white
           /\ rooms'.black = rooms.black ]_vars

\* C27: a game_start message reaches a player only when both player slots of
\* the room hold open connections.
C27_GameStartOnlyWhenBothOpen ==
  \A m \in sent :
    m[2] = "game_start" /\ rooms # NoRoom /\ m[1] \in {rooms.white, rooms.black}
      => IsOpen(rooms.white) /\ IsOpen(rooms.black)

\* C28: no two open connections were assigned the same colour.
C28_NoTwoOpenSameColour ==
  \A c, d \in Connections :
    c # d /\ IsOpen(c) /\ IsOpen(d) /\ assigned[c] \in {"white", "black"}
      => assigned[c] # assigned[d]

\* every connection that was made has closed
AllClosed == \A c \in Connections : readyState[c] # "OPEN"

\* C29: once every connection of the room has closed and no connection
\* arrives any more, the room is eventually removed from the room map and
\* stays removed.
C29_ClosedRoomRemoved == <>[]AllClosed => <>[](rooms = NoRoom)

\* two players and a spectator have closed, their closes are handled, the
\* timers have fired and the room is gone
C29_Witness ==
  /\ AllClosed
  /\ \E c, d, e \in Connections :
       /\ assigned[c] = "white" /\ assigned[d] = "black" /\ assigned[e] = "spectator"
       /\ readyState[c] = "CLOSED" /\ readyState[d] = "CLOSED" /\ readyState[e] = "CLOSED"
  /\ closeEvents = {} /\ timers = <<>>
  /\ roomsCreated = 1
  /\ rooms = NoRoom

\* ============================================================ client socket
maxReconnectAttempts == 3

\* close codes: close(1000, ...), the server going away, close() without a
\* code, a connection lost
NormalClosure == 1000

GoingAway == 1001

NoStatus == 1005

Abnormal == 1006

\* new WebSocket(wsUrl, joinProtocol)
NewWebSocket == [readyState |-> "CONNECTING", code |-> 0]

\* socket.close(code): the closing handshake starts; a socket that was still
\* connecting fails the connection and reports an abnormal closure
CloseSocket(ws, code) ==
  IF ws.readyState = "OPEN" THEN [readyState |-> "CLOSING", code |-> code]
  ELSE IF ws.readyState = "CONNECTING" THEN [readyState |-> "CLOSING", code |-> Abnormal]
  ELSE ws

\* connect(): closes the current socket when it is open or connecting, then
\* creates a new one; the sockets afterwards
ConnectSockets ==
  LET closed == IF socket # 0 /\ webSockets[socket].readyState \in {"OPEN", "CONNECTING"}
                THEN [webSockets EXCEPT ![socket] = CloseSocket(@, NoStatus)]
                ELSE webSockets
  IN  Append(closed, NewWebSocket)

\* the constructor has called connect()
InitSocket ==
  /\ pc = "socket"
  /\ CodecIdle
  /\ RelayIdle
  /\ webSockets = <<NewWebSocket>>
  /\ socket = 1
  /\ reconnectAttempts = 0
  /\ pingInterval = FALSE
  /\ connectTimers = 0
  /\ pingTimers = 0
  /\ disconnected = FALSE

\* socket.onopen
OnOpen ==
  /\ pc = "socket"
  /\ \E i \in 1..Len(webSockets) :
       /\ webSockets[i].readyState = "CONNECTING"
       /\ webSockets' = [webSockets EXCEPT ![i].readyState = "OPEN"]
  /\ reconnectAttempts' = 0
  /\ pingTimers' = pingTimers + 1
  /\ pingInterval' = TRUE
  /\ UNCHANGED <<pc, codecVars, relayVars, socket, connectTimers, disconnected>>

\* socket.onclose with the code of the close event
OnClose(code) ==
  /\ pingInterval' = FALSE
  /\ IF code # NormalClosure /\ reconnectAttempts < maxReconnectAttempts
     THEN /\ reconnectAttempts' = reconnectAttempts + 1
          /\ connectTimers' = connectTimers + 1
     ELSE UNCHANGED <<reconnectAttempts, connectTimers>>

\* the connection is lost or closed by the server
ConnectionLost ==
  /\ pc = "socket"
  /\ \E i \in 1..Len(webSockets), code \in {NormalClosure, Abnormal} :
       /\ webSockets[i].readyState \in {"CONNECTING", "OPEN"}
       /\ webSockets[i].readyState = "CONNECTING" => code = Abnormal
       /\ webSockets' = [webSockets EXCEPT ![i] = [readyState |-> "CLOSED", code |-> code]]
       /\ OnClose(code)
  /\ UNCHANGED <<pc, codecVars, relayVars, socket, pingTimers, disconnected>>

\* the server starts the closing handshake of an open socket
ClosingHandshake ==
  /\ pc = "socket"
  /\ \E i \in 1..Len(webSockets), code \in {NormalClosure, GoingAway} :
       /\ webSockets[i].readyState = "OPEN"
       /\ webSockets' = [webSockets EXCEPT ![i] = [readyState |-> "CLOSING", code |-> code]]
  /\ UNCHANGED <<pc, codecVars, relayVars, socket, reconnectAttempts, pingInterval,
                 connectTimers, pingTimers, disconnected>>

\* the closing handshake of a socket ends
CloseCompletes ==
  /\ pc = "socket"
  /\ \E i \in 1..Len(webSockets) :
       /\ webSockets[i].readyState = "CLOSING"
       /\ webSockets' = [webSockets EXCEPT ![i].readyState = "CLOSED"]
       /\ OnClose(webSockets[i].code)
  /\ UNCHANGED <<pc, codecVars, relayVars, socket, pingTimers, disconnected>>

\* setTimeout(() => this.connect(isJoiningRoom), delay) fires
ConnectTimerFires ==
  /\ pc = "socket"
  /\ connectTimers > 0
  /\ Len(webSockets) < MaxWebSockets
  /\ connectTimers' = connectTimers - 1
  /\ webSockets' = ConnectSockets
  /\ socket' = Len(webSockets')
  /\ UNCHANGED <<pc, codecVars, relayVars, reconnectAttempts, pingInterval, pingTimers, disconnected>>

\* the timer of onopen (500 ms) fires: ping, or a reconnection
PingTimerFires ==
  /\ pc = "socket"
  /\ pingTimers > 0
  /\ pingTimers' = pingTimers - 1
  /\ IF socket # 0 /\ webSockets[socket].readyState = "OPEN"
     THEN UNCHANGED <<reconnectAttempts, connectTimers>>
     ELSE IF reconnectAttempts < maxReconnectAttempts
     THEN /\ reconnectAttempts' = reconnectAttempts + 1
          /\ connectTimers' = connectTimers + 1
     ELSE UNCHANGED <<reconnectAttempts, connectTimers>>
  /\ UNCHANGED <<pc, codecVars, relayVars, webSockets, socket, pingInterval, disconnected>>

\* the interval of setupKeepAlive (15 s) fires
KeepAlive ==
  /\ pc = "socket"
  /\ pingInterval
  /\ IF /\ socket # 0
        /\ webSockets[socket].readyState \in {"CLOSED", "CLOSING"}
        /\ reconnectAttempts < maxReconnectAttempts
     THEN /\ Len(webSockets) < MaxWebSockets
          /\ reconnectAttempts' = reconnectAttempts + 1
          /\ webSockets' = ConnectSockets
          /\ socket' = Len(webSockets')
     ELSE UNCHANGED <<reconnectAttempts, webSockets, socket>>
  /\ UNCHANGED <<pc, codecVars, relayVars, pingInterval, connectTimers, pingTimers, disconnected>>

\* disconnect()
Disconnect ==
  /\ pc = "socket"
  /\ ~disconnected
  /\ disconnected' = TRUE
  /\ pingInterval' = FALSE
  /\ reconnectAttempts' = maxReconnectAttempts
  /\ webSockets' = IF socket # 0
                   THEN [webSockets EXCEPT ![socket] = CloseSocket(@, NormalClosure)]
                   ELSE webSockets
  /\ socket' = 0
  /\ UNCHANGED <<pc, codecVars, relayVars, connectTimers, pingTimers>>

NextSocket ==
  OnOpen \/ ConnectionLost \/ ClosingHandshake \/ CloseCompletes \/ ConnectTimerFires
    \/ PingTimerFires
    \/ KeepAlive \/ Disconnect

SpecSocket == InitSocket /\ [][NextSocket]_vars

\* C30: after disconnect() the object creates no WebSocket.
C30_NoSocketAfterDisconnect == [][ disconnected => Len(webSockets') = Len(webSockets) ]_vars

====
